---- MODULE Spec2Model ----
(***************************************************************************)
(* A model of the keyword filter and rule labeller of design_metrics       *)
(* (design_metrics/filter/__init__.py), with the text helpers it uses.     *)
(*                                                                         *)
(* A text is a sequence of one-character strings.  A cell of a table is a  *)
(* record [kind, v]: kind "str" (v is the text), "null" (None/NaN) or      *)
(* "list" (v is a sequence of labels, the value label_by_rules stores).    *)
(* A table is a record [columns, index, rows]: the column names in order,  *)
(* the index label of every row, and one function column -> cell per row.  *)
(* An optional argument is None (the empty set) or Some(x) (the set {x}).  *)
(***************************************************************************)
EXTENDS Integers, Sequences, FiniteSets, TLC

\* ------------------------------------------------------------- bounds
MaxRows == 2
MaxTerms == 2
MaxRules == 2
MaxMinMatch == 2
MaxPapers == 3
MaxStem == 3
MaxEntries == 2
MaxOps == 3
MaxLinks == 4

\* ------------------------------------------------------------- options
None == {}
Some(x) == {x}
Get(o) == CHOOSE x \in o : TRUE

\* ------------------------------------------------------------- text
LowerSeq == <<"a","b","c","d","e","f","g","h","i","j","k","l","m",
              "n","o","p","q","r","s","t","u","v","w","x","y","z">>
UpperSeq == <<"A","B","C","D","E","F","G","H","I","J","K","L","M",
              "N","O","P","Q","R","S","T","U","V","W","X","Y","Z">>
Digits == {"0","1","2","3","4","5","6","7","8","9"}
Whitespace == {" "}

\* The characters of the model in code-point order.
CodePoints == <<" ", "'", ",", "-", ".",
                "0","1","2","3","4","5","6","7","8","9", ";",
                "A","B","C","D","E","F","G","H","I","J","K","L","M",
                "N","O","P","Q","R","S","T","U","V","W","X","Y","Z",
                "[", "]",
                "a","b","c","d","e","f","g","h","i","j","k","l","m",
                "n","o","p","q","r","s","t","u","v","w","x","y","z">>

Chars == {CodePoints[i] : i \in 1..Len(CodePoints)}

\* The characters normalise_text keeps: letters, digits and the hyphen.
SignalSet == {LowerSeq[i] : i \in 1..26} \cup Digits \cup {"-"}

Casefolded ==
  [c \in Chars |->
     IF \E i \in 1..26 : UpperSeq[i] = c
     THEN LowerSeq[CHOOSE i \in 1..26 : UpperSeq[i] = c]
     ELSE c]

\* str.casefold on one character.
casefold(c) == Casefolded[c]

RECURSIVE split_from(_, _, _, _)
split_from(s, i, cur, acc) ==
  IF i > Len(s)
  THEN IF cur = <<>> THEN acc ELSE Append(acc, cur)
  ELSE IF s[i] \in Whitespace
       THEN split_from(s, i + 1, <<>>, IF cur = <<>> THEN acc ELSE Append(acc, cur))
       ELSE split_from(s, i + 1, Append(cur, s[i]), acc)

\* str.split(): the maximal runs of non-whitespace characters, in order.
split(s) == split_from(s, 1, <<>>, <<>>)

RECURSIVE join(_)
\* " ".join(parts)
join(parts) ==
  IF parts = <<>> THEN <<>>
  ELSE IF Len(parts) = 1 THEN parts[1]
  ELSE parts[1] \o <<" ">> \o join(Tail(parts))

\* needle in haystack (Python's substring test; the empty text is in every text).
Contains(haystack, needle) ==
  \E i \in 0..(Len(haystack) - Len(needle)) :
     SubSeq(haystack, i + 1, i + Len(needle)) = needle

\* str.strip() leaves nothing: the text is empty or all whitespace.
IsBlank(s) == \A i \in 1..Len(s) : s[i] \in Whitespace

\* The casefolded characters of s that are signal characters or whitespace.
keep_signal(s) ==
  LET Kept(c) == c \in SignalSet \/ c \in Whitespace
  IN  SelectSeq([i \in 1..Len(s) |-> casefold(s[i])], Kept)

RECURSIVE list_items(_)
list_items(items) ==
  IF items = <<>> THEN <<>>
  ELSE <<"'">> \o Head(items) \o <<"'">>
       \o (IF Len(items) > 1 THEN <<",", " ">> ELSE <<>>)
       \o list_items(Tail(items))

\* str(value) of a list of strings: ['AI', 'BIM'].
list_text(items) == <<"[">> \o list_items(items) \o <<"]">>

\* design_metrics.clean._normalise_text: a missing value is the empty text;
\* otherwise casefold, drop the characters outside the signal set, collapse
\* runs of whitespace to one space and strip.
normalise_text(value) ==
  CASE value.kind = "null" -> <<>>
    [] value.kind = "list" -> join(split(keep_signal(list_text(value.v))))
    [] OTHER -> join(split(keep_signal(value.v)))

EndsWith(token, suffix) ==
  /\ Len(token) >= Len(suffix)
  /\ SubSeq(token, Len(token) - Len(suffix) + 1, Len(token)) = suffix

Suffixes == << <<"i","n","g">>, <<"e","d">>, <<"e","s">>, <<"s">> >>

\* _lemmatise without the test on the length of the stem.
lemmatise_any_stem(token) ==
  LET hits == {k \in 1..Len(Suffixes) : EndsWith(token, Suffixes[k])}
  IN  IF hits = {} THEN token
      ELSE LET k == CHOOSE k \in hits : \A j \in hits : k <= j
           IN  SubSeq(token, 1, Len(token) - Len(Suffixes[k]))

\* design_metrics.bib._lemmatise: strip the first suffix of ing, ed, es, s
\* that leaves a stem of at least three characters.
lemmatise(token) ==
  LET hits == {k \in 1..Len(Suffixes) :
                 /\ EndsWith(token, Suffixes[k])
                 /\ Len(token) - Len(Suffixes[k]) >= 3}
  IN  IF hits = {} THEN token
      ELSE LET k == CHOOSE k \in hits : \A j \in hits : k <= j
           IN  SubSeq(token, 1, Len(token) - Len(Suffixes[k]))

Range(s) == {s[i] : i \in 1..Len(s)}

\* str.lower()
lower(s) == [i \in 1..Len(s) |-> casefold(s[i])]

RECURSIVE lstrip(_)
lstrip(s) == IF s # <<>> /\ Head(s) \in Whitespace THEN lstrip(Tail(s)) ELSE s

RECURSIVE rstrip(_)
rstrip(s) ==
  IF s # <<>> /\ s[Len(s)] \in Whitespace THEN rstrip(SubSeq(s, 1, Len(s) - 1)) ELSE s

\* str.strip()
strip(s) == rstrip(lstrip(s))

CodeOf == [c \in Chars |-> CHOOSE i \in 1..Len(CodePoints) : CodePoints[i] = c]

\* ord(c)
Code(c) == CodeOf[c]

RECURSIVE str_less(_, _)
\* a < b on Python strings: lexicographic by code point.
str_less(a, b) ==
  IF b = <<>> THEN FALSE
  ELSE IF a = <<>> THEN TRUE
  ELSE IF Head(a) = Head(b) THEN str_less(Tail(a), Tail(b))
  ELSE Code(Head(a)) < Code(Head(b))

RECURSIVE sorted(_)
\* sorted(set of strings)
sorted(S) ==
  IF S = {} THEN <<>>
  ELSE LET m == CHOOSE x \in S : \A y \in S \ {x} : str_less(x, y)
       IN  <<m>> \o sorted(S \ {m})

\* ------------------------------------------------------------- tables
Str(text) == [kind |-> "str", v |-> text]
Null == [kind |-> "null", v |-> <<>>]
List(items) == [kind |-> "list", v |-> items]

NumRows(table) == Len(table.rows)

\* papers.iloc[0:0]: the columns of the table and no row.
iloc_empty(papers) == [columns |-> papers.columns, index |-> <<>>, rows |-> <<>>]

\* loc_mask followed by reset_index(drop=True): the kept rows renumbered from 0.
loc_mask_reset_index(papers, mask) ==
  LET Keep(i) == mask[i]
      kept == SelectSeq([i \in 1..Len(papers.rows) |-> i], Keep)
  IN  [columns |-> papers.columns,
       index |-> [k \in 1..Len(kept) |-> k - 1],
       rows |-> [k \in 1..Len(kept) |-> papers.rows[kept[k]]]]

\* papers.loc[mask].copy(): the rows whose mask is true, in order, each with
\* its own index label.
loc_mask(papers, mask) ==
  LET Keep(i) == mask[i]
      kept == SelectSeq([i \in 1..NumRows(papers) |-> i], Keep)
  IN  [columns |-> papers.columns,
       index |-> [k \in 1..Len(kept) |-> papers.index[kept[k]]],
       rows |-> [k \in 1..Len(kept) |-> papers.rows[kept[k]]]]

\* ------------------------------------------------------------- filter
Ok(table) == [status |-> "ok", table |-> table]
Raise(error) == [status |-> error]

default_order == <<"title", "abstract", "keywords", "summary">>

\* resolve_columns that ignores the columns argument.
resolve_columns_defaults_only(papers, columns) ==
  LET InTable(column) == column \in Range(papers.columns)
      resolved == SelectSeq(default_order, InTable)
  IN  IF resolved = <<>> THEN None ELSE Some(resolved)

\* resolve_columns that falls back to the first default column alone.
resolve_columns_first_default(papers, columns) ==
  LET InTable(column) == column \in Range(papers.columns)
      named == IF columns = None THEN <<>> ELSE SelectSeq(Get(columns), InTable)
      resolved == SelectSeq(default_order, InTable)
  IN  IF columns # None /\ named # <<>> THEN Some(named)
      ELSE IF resolved = <<>> THEN None
      ELSE Some(<<resolved[1]>>)

\* resolve_columns that returns an empty list where it should raise.
resolve_columns_no_raise(papers, columns) ==
  LET InTable(column) == column \in Range(papers.columns)
      named == IF columns = None THEN <<>> ELSE SelectSeq(Get(columns), InTable)
  IN  IF columns # None /\ named # <<>> THEN Some(named)
      ELSE Some(SelectSeq(default_order, InTable))

\* filter._resolve_columns: Some(columns to search), or None when it raises.
resolve_columns(papers, columns) ==
  LET InTable(column) == column \in Range(papers.columns)
      named == IF columns = None THEN <<>> ELSE SelectSeq(Get(columns), InTable)
      resolved == SelectSeq(default_order, InTable)
  IN  IF columns # None /\ named # <<>> THEN Some(named)
      ELSE IF resolved = <<>> THEN None
      ELSE Some(resolved)

\* _BaseMatcher.__init__: the terms that are not empty.
base_terms(terms) ==
  LET NonEmpty(term) == term # <<>>
  IN  SelectSeq(terms, NonEmpty)

\* " ".join(_normalise_text(row.get(column, "")) for column in columns)
haystack_of(row, columns) ==
  join([k \in 1..Len(columns) |-> normalise_text(row[columns[k]])])

\* _SubstringMatcher.matches
substring_matches(terms, row, columns) ==
  LET haystack == haystack_of(row, columns)
  IN  \E k \in 1..Len(terms) : Contains(haystack, terms[k])

\* The set of tokens _LemmaMatcher.matches collects from the columns.
haystack_terms_of(row, columns) ==
  UNION {Range(split(normalise_text(row[columns[k]]))) : k \in 1..Len(columns)}

\* _LemmaMatcher.matches
lemma_matches(terms, row, columns) ==
  LET haystack_terms == haystack_terms_of(row, columns)
  IN  \E k \in 1..Len(terms) : terms[k] \in haystack_terms

\* effective_min_match without max(1, ...) and without the `or`: min_match as
\* given, every term when it is absent.
effective_min_match_as_given(terms, min_match) ==
  IF min_match = None THEN Len(terms) ELSE Get(min_match)

\* _MinimumMatchMatcher.__init__: max(1, min_match or len(self._terms))
effective_min_match(terms, min_match) ==
  LET wanted == IF min_match = None \/ Get(min_match) = 0
                THEN Len(terms) ELSE Get(min_match)
  IN  IF wanted > 1 THEN wanted ELSE 1

\* _MinimumMatchMatcher.matches
minimum_match_matches(terms, min_match, row, columns) ==
  LET haystack == haystack_of(row, columns)
      count == Cardinality({k \in 1..Len(terms) : Contains(haystack, terms[k])})
  IN  count >= effective_min_match(terms, min_match)

M_lemma == <<"l","e","m","m","a">>
M_minmatch == <<"m","i","n","m","a","t","c","h">>
M_substring == <<"s","u","b","s","t","r","i","n","g">>

\* The terms by_keywords hands to the matcher.
normalised_terms_of(terms) ==
  LET NotBlank(term) == ~IsBlank(term)
      kept == SelectSeq(terms, NotBlank)
  IN  [k \in 1..Len(kept) |-> normalise_text(Str(kept[k]))]

\* matcher.matches(row, search_columns) for the matcher by_keywords builds for
\* the mode: _LemmaMatcher, _MinimumMatchMatcher or _SubstringMatcher.
matches(mode, terms, min_match, row, columns) ==
  CASE mode = M_lemma -> lemma_matches(base_terms(terms), row, columns)
    [] mode = M_minmatch ->
         minimum_match_matches(base_terms(terms), min_match, row, columns)
    [] OTHER -> substring_matches(base_terms(terms), row, columns)

\* by_keywords without the check of the mode: a mode it does not know gets the
\* substring matcher.
by_keywords_any_mode(papers, terms, mode, columns, min_match) ==
  IF terms = <<>> THEN Ok(iloc_empty(papers))
  ELSE
    LET search == resolve_columns(papers, columns)
        normalised_terms == normalised_terms_of(terms)
    IN  IF search = None THEN Raise("NoSearchableColumns")
        ELSE IF normalised_terms = <<>> THEN Ok(iloc_empty(papers))
        ELSE Ok(loc_mask(papers,
                         [i \in 1..NumRows(papers) |->
                            matches(mode, normalised_terms, min_match,
                                    papers.rows[i], Get(search))]))

\* by_keywords without its first early return: empty terms are only caught
\* after the columns are resolved.
by_keywords_resolve_first(papers, terms, mode, columns, min_match) ==
  LET search == resolve_columns(papers, columns)
      normalised_terms == normalised_terms_of(terms)
  IN  IF search = None THEN Raise("NoSearchableColumns")
      ELSE IF normalised_terms = <<>> THEN Ok(iloc_empty(papers))
      ELSE IF mode \notin {M_lemma, M_minmatch, M_substring}
           THEN Raise("InvalidArgument")
      ELSE Ok(loc_mask(papers,
                       [i \in 1..NumRows(papers) |->
                          matches(mode, normalised_terms, min_match,
                                  papers.rows[i], Get(search))]))

\* filter.by_keywords
by_keywords(papers, terms, mode, columns, min_match) ==
  IF terms = <<>> THEN Ok(iloc_empty(papers))
  ELSE
    LET search == resolve_columns(papers, columns)
        normalised_terms == normalised_terms_of(terms)
    IN  IF search = None THEN Raise("NoSearchableColumns")
        ELSE IF normalised_terms = <<>> THEN Ok(iloc_empty(papers))
        ELSE IF mode \notin {M_lemma, M_minmatch, M_substring}
             THEN Raise("InvalidArgument")
        ELSE Ok(loc_mask(papers,
                         [i \in 1..NumRows(papers) |->
                            matches(mode, normalised_terms, min_match,
                                    papers.rows[i], Get(search))]))

\* ------------------------------------------------------------- labeller
M_all == <<"a","l","l">>
M_any == <<"a","n","y">>

\* isinstance(entry, Mapping): an entry that is no mapping is a bare scalar.
IsMapping(entry) == "scalar" \notin DOMAIN entry

\* entry.get(key) read as terms: a string is one term, a sequence gives its
\* items, an absent key gives none.
entry_terms(entry, key) ==
  IF key \notin DOMAIN entry THEN <<>>
  ELSE IF entry[key].kind = "str" THEN <<entry[key].v>>
  ELSE entry[key].v

\* implied_mode without the switch: the mode stays as given.
implied_mode_unchanged(match_type, mode) == mode

\* The mode of an entry without an integer min_match: match "all" turns the
\* default mode into minmatch.
implied_mode(match_type, mode) ==
  IF match_type = M_all /\ mode = M_lemma THEN M_minmatch ELSE mode

\* parse_entry that reads the key `all` as match "all".
parse_entry_all_key_matches_all(entry) ==
  IF ~IsMapping(entry) THEN None
  ELSE
    LET label == strip(IF "label" \in DOMAIN entry THEN entry.label ELSE <<>>)
        NotBlank(term) == ~IsBlank(term)
        terms == SelectSeq(entry_terms(entry, "terms") \o entry_terms(entry, "any")
                             \o entry_terms(entry, "all"), NotBlank)
        given_mode == lower(IF "mode" \in DOMAIN entry THEN entry.mode ELSE M_lemma)
        columns == IF "columns" \in DOMAIN entry /\ entry.columns.kind = "list"
                   THEN Some(entry.columns.v) ELSE None
        match_type == IF "all" \in DOMAIN entry THEN M_all
                      ELSE lower(IF "match" \in DOMAIN entry THEN entry.match ELSE M_any)
        has_min_match == "min_match" \in DOMAIN entry
        mode == IF has_min_match THEN given_mode
                ELSE implied_mode(match_type, given_mode)
        min_match == IF has_min_match THEN Some(entry.min_match)
                     ELSE IF match_type = M_all THEN Some(Len(terms)) ELSE None
    IN  IF label = <<>> THEN None
        ELSE IF terms = <<>> THEN None
        ELSE Some([label |-> label, terms |-> terms, mode |-> mode,
                   columns |-> columns, min_match |-> min_match])

\* The body of the loop of filter._parse_rules for one entry: Some(rule), or
\* None when the entry is skipped.
parse_entry(entry) ==
  IF ~IsMapping(entry) THEN None
  ELSE
    LET label == strip(IF "label" \in DOMAIN entry THEN entry.label ELSE <<>>)
        NotBlank(term) == ~IsBlank(term)
        terms == SelectSeq(entry_terms(entry, "terms") \o entry_terms(entry, "any")
                             \o entry_terms(entry, "all"), NotBlank)
        given_mode == lower(IF "mode" \in DOMAIN entry THEN entry.mode ELSE M_lemma)
        columns == IF "columns" \in DOMAIN entry /\ entry.columns.kind = "list"
                   THEN Some(entry.columns.v) ELSE None
        match_type == lower(IF "match" \in DOMAIN entry THEN entry.match ELSE M_any)
        has_min_match == "min_match" \in DOMAIN entry
        mode == IF has_min_match THEN given_mode
                ELSE implied_mode(match_type, given_mode)
        min_match == IF has_min_match THEN Some(entry.min_match)
                     ELSE IF match_type = M_all THEN Some(Len(terms)) ELSE None
    IN  IF label = <<>> THEN None
        ELSE IF terms = <<>> THEN None
        ELSE Some([label |-> label, terms |-> terms, mode |-> mode,
                   columns |-> columns, min_match |-> min_match])

RECURSIVE parse_rules_stop_at_skipped(_)
\* parse_rules with `break` for `continue`: the first entry that is skipped
\* ends the parsing.
parse_rules_stop_at_skipped(parsed_rules) ==
  IF parsed_rules = <<>> THEN <<>>
  ELSE LET rule == parse_entry(Head(parsed_rules))
       IN  IF rule = None THEN <<>>
           ELSE <<Get(rule)>> \o parse_rules_stop_at_skipped(Tail(parsed_rules))

RECURSIVE parse_rules(_)
\* filter._parse_rules on a sequence of entries.
parse_rules(parsed_rules) ==
  IF parsed_rules = <<>> THEN <<>>
  ELSE LET rule == parse_entry(Head(parsed_rules))
       IN  (IF rule = None THEN <<>> ELSE <<Get(rule)>>) \o parse_rules(Tail(parsed_rules))

\* frame = papers.copy(); frame[label_column] = [[] for _ in range(len(frame))]
with_label_column(papers, label_column) ==
  [columns |-> IF label_column \in Range(papers.columns) THEN papers.columns
               ELSE Append(papers.columns, label_column),
   index |-> papers.index,
   rows |-> [i \in 1..NumRows(papers) |->
               [column \in DOMAIN papers.rows[i] \cup {label_column} |->
                  IF column = label_column THEN List(<<>>) ELSE papers.rows[i][column]]]]

\* add_label without the set and the sort: the label is appended.
add_label_append(frame, subset_index, label, label_column) ==
  [frame EXCEPT !.rows =
     [i \in 1..NumRows(frame) |->
        IF frame.index[i] \in Range(subset_index)
        THEN [frame.rows[i] EXCEPT ![label_column] =
                List(Append(frame.rows[i][label_column].v, label))]
        ELSE frame.rows[i]]]

\* The inner loop of label_by_rules: every row of the frame whose index label
\* is in the subset gets the label added to its sorted label list.
add_label(frame, subset_index, label, label_column) ==
  [frame EXCEPT !.rows =
     [i \in 1..NumRows(frame) |->
        IF frame.index[i] \in Range(subset_index)
        THEN [frame.rows[i] EXCEPT ![label_column] =
                List(sorted(Range(frame.rows[i][label_column].v) \cup {label}))]
        ELSE frame.rows[i]]]

RECURSIVE apply_rules_unlabelled_only(_, _, _)
\* The outer loop with the first matching rule winning: a rule labels only
\* the rows that carry no label yet.
apply_rules_unlabelled_only(frame, rules, label_column) ==
  IF rules = <<>> THEN Ok(frame)
  ELSE
    LET rule == Head(rules)
        subset == by_keywords(frame, rule.terms, rule.mode, rule.columns, rule.min_match)
        Unlabelled(label) ==
          \E i \in 1..NumRows(frame) :
            frame.index[i] = label /\ frame.rows[i][label_column].v = <<>>
    IN  IF subset.status # "ok" THEN subset
        ELSE apply_rules_unlabelled_only(
               add_label(frame, SelectSeq(subset.table.index, Unlabelled), rule.label,
                         label_column),
               Tail(rules), label_column)

RECURSIVE apply_rules(_, _, _)
\* The outer loop of label_by_rules; a failure of by_keywords ends the call.
apply_rules(frame, rules, label_column) ==
  IF rules = <<>> THEN Ok(frame)
  ELSE
    LET rule == Head(rules)
        subset == by_keywords(frame, rule.terms, rule.mode, rule.columns, rule.min_match)
    IN  IF subset.status # "ok" THEN subset
        ELSE apply_rules(add_label(frame, subset.table.index, rule.label, label_column),
                         Tail(rules), label_column)

\* filter.label_by_rules
label_by_rules(papers, rules_yaml, label_column) ==
  apply_rules(with_label_column(papers, label_column), parse_rules(rules_yaml),
              label_column)

\* ------------------------------------------------------------- frames
\* DataFrame.copy() kept out: the working frame is the caller's own table.
copy_same_object(table) == [table |-> table, is_callers |-> TRUE]

\* DataFrame.copy(): a frame of its own with the content of the table; what
\* the callee writes to it does not reach the caller's table.
copy(table) == [table |-> table, is_callers |-> FALSE]

\* The caller's table when the callee is left, its working frame being
\* `written` by then.
callers_table(papers, frame, written) ==
  IF frame.is_callers THEN written ELSE papers

RECURSIVE frame_after_rules(_, _, _)
\* The working frame of label_by_rules when the call is left: after the last
\* rule, or as the rules before the failing one left it.
frame_after_rules(frame, rules, label_column) ==
  IF rules = <<>> THEN frame
  ELSE
    LET rule == Head(rules)
        subset == by_keywords(frame, rule.terms, rule.mode, rule.columns, rule.min_match)
    IN  IF subset.status # "ok" THEN frame
        ELSE frame_after_rules(add_label(frame, subset.table.index, rule.label, label_column),
                               Tail(rules), label_column)

\* The caller's table after label_by_rules(papers, rules_yaml, label_column).
papers_after_label_by_rules(papers, rules_yaml, label_column) ==
  callers_table(papers, copy(papers),
                frame_after_rules(with_label_column(papers, label_column),
                                  parse_rules(rules_yaml), label_column))

\* ------------------------------------------------------------- loader
Number(n) == [kind |-> "int", v |-> n]

DigitSeq == <<"0","1","2","3","4","5","6","7","8","9">>

RECURSIVE int_text(_)
\* str(n) for n >= 0
int_text(n) ==
  IF n < 10 THEN <<DigitSeq[n + 1]>>
  ELSE int_text(n \div 10) \o <<DigitSeq[(n % 10) + 1]>>

RECURSIVE text_int(_)
\* int(text) for a text of digits
text_int(text) ==
  IF text = <<>> THEN 0
  ELSE 10 * text_int(SubSeq(text, 1, Len(text) - 1))
         + ((CHOOSE d \in 1..10 : DigitSeq[d] = text[Len(text)]) - 1)

\* pd.to_numeric(errors="coerce").astype("Int64") on one cell: a number stays,
\* a text of digits is read, anything else becomes missing.
to_numeric(cell) ==
  IF cell.kind = "int" THEN cell
  ELSE IF cell.kind = "str" /\ strip(cell.v) # <<>>
          /\ \A i \in 1..Len(strip(cell.v)) : strip(cell.v)[i] \in Digits
       THEN Number(text_int(strip(cell.v)))
  ELSE Null

\* frame.rename(columns=mapper, inplace=True); the mapper is a function from
\* old names to new names.
rename(frame, mapper) ==
  LET renamed(column) == IF column \in DOMAIN mapper THEN mapper[column] ELSE column
      columns == [k \in 1..Len(frame.columns) |-> renamed(frame.columns[k])]
  IN  [columns |-> columns,
       index |-> frame.index,
       rows |-> [i \in 1..NumRows(frame) |->
                   [column \in Range(columns) |->
                      frame.rows[i][CHOOSE old \in Range(frame.columns) :
                                      renamed(old) = column]]]]

\* frame.insert(0, column, values)
insert_first(frame, column, values) ==
  [columns |-> <<column>> \o frame.columns,
   index |-> frame.index,
   rows |-> [i \in 1..NumRows(frame) |->
               [c \in Range(frame.columns) \cup {column} |->
                  IF c = column THEN values[i] ELSE frame.rows[i][c]]]]

\* frame[column] = values: the column is replaced, or added after the others.
set_column(frame, column, values) ==
  [columns |-> IF column \in Range(frame.columns) THEN frame.columns
               ELSE Append(frame.columns, column),
   index |-> frame.index,
   rows |-> [i \in 1..NumRows(frame) |->
               [c \in Range(frame.columns) \cup {column} |->
                  IF c = column THEN values[i] ELSE frame.rows[i][c]]]]

\* frame.index.astype(str)
index_as_str(frame) == [i \in 1..NumRows(frame) |-> Str(int_text(frame.index[i]))]

RaiseMissing(column) == [status |-> "MissingColumn", column |-> column]

\* The required columns, in order, that the frame lacks.
missing_columns(frame, required) ==
  LET Absent(column) == column \notin Range(frame.columns)
  IN  SelectSeq(required, Absent)

REQUIRED_PAPER_COLUMNS == <<"paper_id", "title">>
REQUIRED_AUTHORSHIP_COLUMNS == <<"paper_id", "author_id">>

V_Unknown == <<"U","n","k","n","o","w","n">>

\* _normalise_papers without the loop over the required columns.
normalise_papers_run_unchecked(frame) ==
  LET renamed == rename(frame, [id |-> "paper_id", paperID |-> "paper_id",
                                paper |-> "paper_id", year |-> "year"])
      with_id == IF "paper_id" \notin Range(renamed.columns)
                 THEN insert_first(renamed, "paper_id", index_as_str(renamed))
                 ELSE renamed
      with_venue == IF "venue" \notin Range(with_id.columns)
                    THEN set_column(with_id, "venue",
                                    [i \in 1..NumRows(with_id) |-> Str(V_Unknown)])
                    ELSE with_id
  IN  [outcome |-> Ok(with_venue), written |-> with_venue]

\* bib._normalise_papers: the outcome of the call and the working frame as the
\* call leaves it.
normalise_papers_run(frame) ==
  LET renamed == rename(frame, [id |-> "paper_id", paperID |-> "paper_id",
                                paper |-> "paper_id", year |-> "year"])
      with_id == IF "paper_id" \notin Range(renamed.columns)
                 THEN insert_first(renamed, "paper_id", index_as_str(renamed))
                 ELSE renamed
      missing == missing_columns(with_id, REQUIRED_PAPER_COLUMNS)
      with_year == IF "year" \in Range(with_id.columns)
                   THEN set_column(with_id, "year",
                                   [i \in 1..NumRows(with_id) |->
                                      to_numeric(with_id.rows[i].year)])
                   ELSE with_id
      with_venue == IF "venue" \notin Range(with_year.columns)
                    THEN set_column(with_year, "venue",
                                    [i \in 1..NumRows(with_year) |-> Str(V_Unknown)])
                    ELSE with_year
  IN  IF missing # <<>>
      THEN [outcome |-> RaiseMissing(missing[1]), written |-> with_id]
      ELSE [outcome |-> Ok(with_venue), written |-> with_venue]

\* bib._normalise_authors
normalise_authors_run(frame) ==
  LET renamed == rename(frame, [id |-> "author_id", author |-> "name"])
      with_id == IF "author_id" \notin Range(renamed.columns)
                 THEN insert_first(renamed, "author_id", index_as_str(renamed))
                 ELSE renamed
  IN  IF "name" \notin Range(with_id.columns)
      THEN [outcome |-> RaiseMissing("name"), written |-> with_id]
      ELSE [outcome |-> Ok(with_id), written |-> with_id]

\* bib._normalise_authorships
normalise_authorships_run(frame) ==
  LET renamed == rename(frame, [paper |-> "paper_id", author |-> "author_id",
                                person_id |-> "author_id"])
      missing == missing_columns(renamed, REQUIRED_AUTHORSHIP_COLUMNS)
  IN  IF missing # <<>>
      THEN [outcome |-> RaiseMissing(missing[1]), written |-> renamed]
      ELSE [outcome |-> Ok(renamed), written |-> renamed]

\* ------------------------------------------------------------- deduplicator
\* A similarity threshold is a fraction <<numerator, denominator>>.
valid_similarity(similarity) ==
  similarity[1] > 0 /\ similarity[1] <= similarity[2]

\* Step 1: the comparison key of a title: casefolded, punctuation stripped,
\* whitespace collapsed.
title_key(cell) ==
  IF cell.kind # "str" THEN <<>>
  ELSE LET Kept(c) == c \in SignalSet \ {"-"} \/ c \in Whitespace
           folded == [i \in 1..Len(cell.v) |-> casefold(cell.v[i])]
       IN  join(split(SelectSeq(folded, Kept)))

\* The tokens of the title key of a row.
title_tokens(row) == Range(split(title_key(row.title)))

\* Step 2: two rows are candidates when their years are the same year, or are
\* both missing.  (The variant compares rows of any years.)
same_year_any(a, b) == TRUE
same_year(a, b) == a.year = b.year

\* Step 3: the token overlap (Jaccard) of two title keys reaches the
\* threshold: |A & B| / |A | B| >= numerator / denominator.  (The variant
\* has the comparison the wrong way round.)
overlap_at_most(A, B, similarity) ==
  Cardinality(A \cap B) * similarity[2] <= similarity[1] * Cardinality(A \cup B)
overlap_reaches(A, B, similarity) ==
  Cardinality(A \cap B) * similarity[2] >= similarity[1] * Cardinality(A \cup B)

\* links that compares a row with its neighbours in the table only.
links_adjacent_rows(papers, similarity) ==
  LET tokens == [i \in 1..NumRows(papers) |-> title_tokens(papers.rows[i])]
  IN  [i \in 1..NumRows(papers) |->
         {j \in 1..NumRows(papers) :
            /\ j \in {i - 1, i, i + 1}
            /\ same_year(papers.rows[i], papers.rows[j])
            /\ overlap_reaches(tokens[i], tokens[j], similarity)}]

\* The links of the table: for every row, the rows it is linked to.
links(papers, similarity) ==
  LET tokens == [i \in 1..NumRows(papers) |-> title_tokens(papers.rows[i])]
  IN  [i \in 1..NumRows(papers) |->
         {j \in 1..NumRows(papers) :
            /\ same_year(papers.rows[i], papers.rows[j])
            /\ overlap_reaches(tokens[i], tokens[j], similarity)}]

RECURSIVE closure(_, _)
\* Step 4: the rows reachable from the rows of `group` over links.
closure(linked, group) ==
  LET more == UNION {linked[i] : i \in group}
  IN  IF more \subseteq group THEN group
      ELSE closure(linked, group \cup more)

\* Step 5 by row order: the representative is the member that comes first.
is_representative_first_seen(papers, group, i) ==
  \A j \in group : i <= j

\* Step 5: row i is the representative of its group: no other member has a
\* paper_id that is not greater.
is_representative(papers, group, i) ==
  \A j \in group :
    j = i \/ str_less(papers.rows[i].paper_id.v, papers.rows[j].paper_id.v)

\* clean.dedupe_papers
dedupe_papers(papers, similarity) ==
  IF ~valid_similarity(similarity) THEN Raise("InvalidArgument")
  ELSE LET linked == links(papers, similarity)
       IN  Ok(loc_mask(papers,
                       [i \in 1..NumRows(papers) |->
                          is_representative(papers, closure(linked, {i}), i)]))

\* ------------------------------------------------------------- cleaner
\* normalize_authors of design_metrics.clean, as its contract describes it.

\* str.upper() of one character.
upper_char(c) ==
  IF \E i \in 1..26 : LowerSeq[i] = c
  THEN UpperSeq[CHOOSE i \in 1..26 : LowerSeq[i] = c]
  ELSE c

\* The surname in title case: the first letter upper-cased, the others
\* lower-cased.
title_case(token) ==
  [i \in 1..Len(token) |-> IF i = 1 THEN upper_char(token[i]) ELSE casefold(token[i])]

\* The initial of a given name: its first letter upper-cased, and a period.
initial(token) == <<upper_char(token[1]), ".">>

\* display_name that takes the first token for the surname.
display_name_surname_first(name) ==
  LET tokens == split(strip(name))
  IN  IF Len(tokens) = 1 THEN title_case(tokens[1])
      ELSE join(<<title_case(tokens[1]) \o <<",">>>>
                \o [k \in 1..(Len(tokens) - 1) |-> initial(tokens[k + 1])])

\* Trim, collapse whitespace, split; the last token is the surname, the
\* others are given names: "Surname, I. I.", and a single token alone.
display_name(name) ==
  LET tokens == split(strip(name))
  IN  IF Len(tokens) = 1 THEN title_case(tokens[1])
      ELSE join(<<title_case(tokens[Len(tokens)]) \o <<",">>>>
                \o [k \in 1..(Len(tokens) - 1) |-> initial(tokens[k])])

\* normalize_authors(authors): the name of every row in display form; the
\* other columns, the index and the rows stay as they are.
normalize_authors(authors) ==
  Ok([columns |-> authors.columns,
      index |-> authors.index,
      rows |-> [i \in 1..NumRows(authors) |->
                 [authors.rows[i] EXCEPT !.name = Str(display_name(authors.rows[i].name.v))]]])

\* validate_schema of design_metrics.clean, as its contract describes it.

\* The known table kinds, their required columns and their primary
\* identifier (authorships have none of their own).
KnownTables == <<"papers", "authors", "authorships">>
required_columns(name) ==
  CASE name = "papers" -> <<"paper_id", "title">>
    [] name = "authors" -> <<"author_id", "name">>
    [] name = "authorships" -> <<"paper_id", "author_id">>
primary_identifier(name) ==
  CASE name = "papers" -> Some("paper_id")
    [] name = "authors" -> Some("author_id")
    [] name = "authorships" -> None

\* Series.duplicated().any() on a column of the table.
is_repeated(table, column) ==
  \E i, j \in 1..NumRows(table) : i # j /\ table.rows[i][column] = table.rows[j][column]

\* One row of the report.
problem(name, check, message) == [table |-> name, check |-> check, message |-> message]

\* table_problems that looks at the columns only.
table_problems_columns_only(name, table) ==
  LET missing == missing_columns(table, required_columns(name))
  IN  [k \in 1..Len(missing) |-> problem(name, "required_column", missing[k])]

\* The problems of one supplied table: a row for each required column it
\* lacks, and a row if its primary identifier is there and repeats.
table_problems(name, table) ==
  LET missing == missing_columns(table, required_columns(name))
      repeats == {column \in primary_identifier(name) :
                    column \in Range(table.columns) /\ is_repeated(table, column)}
  IN  [k \in 1..Len(missing) |-> problem(name, "required_column", missing[k])]
      \o (IF repeats = {} THEN <<>>
          ELSE <<problem(name, "unique", CHOOSE column \in repeats : TRUE)>>)

RECURSIVE problems_from(_, _)
problems_from(tables, k) ==
  IF k > Len(KnownTables) THEN <<>>
  ELSE (IF KnownTables[k] \in DOMAIN tables
        THEN table_problems(KnownTables[k], tables[KnownTables[k]])
        ELSE <<>>)
       \o problems_from(tables, k + 1)

\* validate_schema(tables): the report of the supplied known tables; a table
\* that is not supplied and a table of an unknown kind add nothing.
validate_schema(tables) ==
  LET rows == problems_from(tables, 1)
  IN  [status |-> "ok", report |-> [ok |-> rows = <<>>, rows |-> rows]]

\* ------------------------------------------------------------- bibtex
\* design_metrics.io.bibtex.  A text is the sequence of its lines.

\* str.startswith / str.endswith for one character, str.count
starts_with(s, c) == s # <<>> /\ s[1] = c
ends_with(s, c) == s # <<>> /\ s[Len(s)] = c
count(s, c) == Cardinality({i \in 1..Len(s) : s[i] = c})

\* str.strip(c) for one character c
RECURSIVE lstrip_char(_, _)
lstrip_char(s, c) == IF starts_with(s, c) THEN lstrip_char(Tail(s), c) ELSE s
RECURSIVE rstrip_char(_, _)
rstrip_char(s, c) == IF ends_with(s, c) THEN rstrip_char(SubSeq(s, 1, Len(s) - 1), c) ELSE s
strip_char(s, c) == rstrip_char(lstrip_char(s, c), c)

\* s.split(c, 1): the parts before and after the first c, or the text alone.
split_once(s, c) ==
  IF count(s, c) = 0 THEN <<s>>
  ELSE LET at == CHOOSE i \in 1..Len(s) : s[i] = c /\ \A j \in 1..(i - 1) : s[j] # c
       IN  <<SubSeq(s, 1, at - 1), SubSeq(s, at + 1, Len(s))>>

\* _clean_field_value
clean_field_value(raw) ==
  LET value == strip_char(strip(raw), ",")
      inner == strip(SubSeq(value, 2, Len(value) - 1))
  IN  IF starts_with(value, "{") /\ ends_with(value, "}") THEN inner
      ELSE IF starts_with(value, "\"") /\ ends_with(value, "\"") THEN inner
      ELSE value

\* OrderedDict.__setitem__: a new key goes last, a known key keeps its place.
dict_set(fields, name, value) ==
  IF \E k \in 1..Len(fields) : fields[k].name = name
  THEN [k \in 1..Len(fields) |->
          IF fields[k].name = name THEN [name |-> name, value |-> value] ELSE fields[k]]
  ELSE Append(fields, [name |-> name, value |-> value])

BibEntry(entry_type, citation_key, fields) ==
  [entry_type |-> entry_type, citation_key |-> citation_key, fields |-> fields]

\* The locals of parse_bibtex_entries before the first line.
parser_start ==
  [entries |-> <<>>, current_type |-> None, current_key |-> None,
   current_fields |-> <<>>, collecting_field |-> None, buffer |-> <<>>,
   brace_level |-> 0, raised |-> FALSE]

\* The end of the body of the loop: the entry is closed when the line ends
\* with a closing brace and no brace is open.
close_entry(st, line) ==
  IF ends_with(line, "}") /\ st.brace_level <= 0
  THEN [st EXCEPT !.entries = Append(@, BibEntry(CHOOSE t \in st.current_type : TRUE,
                                                 CHOOSE k \in st.current_key : TRUE,
                                                 st.current_fields)),
                  !.current_type = None, !.current_key = None, !.current_fields = <<>>]
  ELSE st

\* One pass of the loop over the lines (lines 62-111).
parse_line(st, raw) ==
  LET line == strip(raw)
  IN  IF line = <<>> \/ starts_with(line, "%") THEN st
      ELSE IF starts_with(line, "@")
      THEN IF st.current_type # None THEN [st EXCEPT !.raised = TRUE]
           ELSE LET parts == split_once(Tail(line), "{")
                IN  IF Len(parts) < 2 THEN [st EXCEPT !.raised = TRUE]
                    ELSE [st EXCEPT !.current_type = Some(strip(parts[1])),
                                    !.current_key = Some(strip(rstrip_char(parts[2], ","))),
                                    !.current_fields = <<>>]
      ELSE IF st.current_type = None \/ st.current_key = None
      THEN [st EXCEPT !.raised = TRUE]
      ELSE IF st.collecting_field # None /\ st.collecting_field # Some(<<>>)
      THEN LET buffer == Append(st.buffer, line)
               level == st.brace_level + count(line, "{") - count(line, "}")
           IN  IF level <= 0 /\ ends_with(line, ",")
               THEN [st EXCEPT !.current_fields =
                                 dict_set(@, CHOOSE f \in st.collecting_field : TRUE,
                                          clean_field_value(join(buffer))),
                               !.collecting_field = None, !.buffer = <<>>,
                               !.brace_level = level]
               ELSE [st EXCEPT !.buffer = buffer, !.brace_level = level]
      ELSE IF count(line, "=") = 0 THEN st
      ELSE LET parts == split_once(line, "=")
               field == strip(parts[1])
               value == strip(parts[2])
               after == IF ends_with(value, ",") /\ count(value, "{") = count(value, "}")
                        THEN [st EXCEPT !.current_fields =
                                          dict_set(@, lower(field), clean_field_value(value))]
                        ELSE [st EXCEPT !.collecting_field = Some(lower(field)),
                                        !.buffer = <<value>>,
                                        !.brace_level = count(value, "{") - count(value, "}")]
           IN  close_entry(after, line)

RECURSIVE parse_from(_, _, _)
parse_from(lines, k, st) ==
  IF st.raised \/ k > Len(lines) THEN st
  ELSE parse_from(lines, k + 1, parse_line(st, lines[k]))

\* parse_bibtex_entries(text): the entries, the open entry last, or
\* ValueError.
parse_bibtex_entries(lines) ==
  LET st == parse_from(lines, 1, parser_start)
  IN  IF st.raised THEN Raise("ValueError")
      ELSE [status |-> "ok",
            entries |-> IF st.current_type # None
                        THEN Append(st.entries,
                                    BibEntry(CHOOSE t \in st.current_type : TRUE,
                                             IF st.current_key = None THEN <<>>
                                             ELSE CHOOSE k \in st.current_key : TRUE,
                                             st.current_fields))
                        ELSE st.entries]

\* ------------------------------------------------------------- report
\* design_metrics.report.  A dict is a function from its keys to its values.

EmptyDict == [key \in {} |-> Null]

\* d[key] = value
dict_put(d, key, value) ==
  [k \in DOMAIN d \cup {key} |-> IF k = key THEN value ELSE d[k]]

\* d.update(other)
dict_update(d, other) ==
  [k \in DOMAIN d \cup DOMAIN other |-> IF k \in DOMAIN other THEN other[k] ELSE d[k]]

\* snapshot() that hands out the registry's own dict.
dict_same_object(d) == [data |-> d, is_registry |-> TRUE]

\* dict(self._data): a new dict with the items of the registry's.
dict_copy(d) == [data |-> d, is_registry |-> FALSE]

\* The registry's dict after the holder of a snapshot has written to it.
registry_after_write(data, snapshot, written) ==
  IF snapshot.is_registry THEN written ELSE data

\* _has_content for None and for strings
has_content(value) ==
  IF value = Null THEN FALSE
  ELSE IF value.kind = "str" THEN strip(value.v) # <<>>
  ELSE TRUE

SectionKeys == <<"trend", "topics", "coauthor_stats", "geo">>
SectionTitles == <<"Trends", "Topics", "Co-authorship", "Geography">>

\* _render_html: the heading and a section for every key with content.
render_html(name, context) ==
  LET Shown(k) == SectionKeys[k] \in DOMAIN context /\ has_content(context[SectionKeys[k]])
      shown == SelectSeq([k \in 1..Len(SectionKeys) |-> k], Shown)
  IN  <<[heading |-> name]>>
      \o [j \in 1..Len(shown) |->
            [title |-> SectionTitles[shown[j]], body |-> context[SectionKeys[shown[j]]]]]

\* combined_context of render with the template's context applied first.
combined_context_template_first(data, template_context, context) ==
  LET with_registry == dict_update(dict_update(EmptyDict, template_context), data)
  IN  IF context # None THEN dict_update(with_registry, Get(context)) ELSE with_registry

\* combined_context of render: the registry's snapshot, then the template's
\* context, then the context argument.
combined_context(data, template_context, context) ==
  LET with_template == dict_update(dict_update(EmptyDict, data), template_context)
  IN  IF context # None THEN dict_update(with_template, Get(context)) ELSE with_template

\* ------------------------------------------------------------- package
\* design_metrics/__init__.py

SUBMODULES == {"bib", "clean", "filter", "metrics", "topics", "graphs", "geo", "refs", "report"}

\* import_module("design_metrics." + name): the module of that name.
import_module(name) == [module |-> name]

\* The names the package module binds itself when it is imported.
ModuleGlobals ==
  [name \in {"import_module", "extend_path", "ModuleType", "_SUBMODULES", "__all__"} |->
     [object |-> name]]

\* __getattr__ that loads any name as a submodule.
package_getattr_any_name(globals, name) ==
  [outcome |-> [status |-> "ok", value |-> import_module(name)],
   globals |-> dict_put(globals, name, import_module(name))]

\* __getattr__(name): the outcome and the package's globals after it.
package_getattr(globals, name) ==
  IF name \in SUBMODULES
  THEN [outcome |-> [status |-> "ok", value |-> import_module(name)],
        globals |-> dict_put(globals, name, import_module(name))]
  ELSE [outcome |-> Raise("AttributeError"), globals |-> globals]

\* ------------------------------------------------------------- graphs
\* design_metrics.graphs.coauthors.  A graph is its nodes and the weight and
\* the papers of its edges; an edge is the set of its two ends.

EmptyGraph == [nodes |-> {}, weight |-> [e \in {} |-> 0], papers |-> [e \in {} |-> {}]]

\* Series.unique(): the values in order of first appearance.
RECURSIVE unique(_)
unique(values) ==
  IF values = <<>> THEN <<>>
  ELSE LET before == unique(SubSeq(values, 1, Len(values) - 1))
           last == values[Len(values)]
       IN  IF last \in Range(before) THEN before ELSE Append(before, last)

\* group[author_column].dropna().astype(str) without unique().
authors_of_every_row(authorships, paper_id) ==
  LET InGroup(row) == row.paper_id = paper_id /\ row.author_id # Null
      group == SelectSeq(authorships.rows, InGroup)
  IN  [k \in 1..Len(group) |-> group[k].author_id.v]

\* group[author_column].dropna().astype(str).unique()
authors_of(authorships, paper_id) ==
  LET InGroup(row) == row.paper_id = paper_id /\ row.author_id # Null
      group == SelectSeq(authorships.rows, InGroup)
  IN  unique([k \in 1..Len(group) |-> group[k].author_id.v])

\* itertools.combinations(authors, 2)
RECURSIVE combinations(_)
combinations(authors) ==
  IF Len(authors) < 2 THEN <<>>
  ELSE [k \in 1..(Len(authors) - 1) |-> <<authors[1], authors[k + 1]>>]
       \o combinations(Tail(authors))

\* graph.add_edge, or one more paper on an edge that is there.
add_pair(graph, pair, paper_id) ==
  LET edge == {pair[1], pair[2]}
  IN  IF edge \in DOMAIN graph.weight
      THEN [graph EXCEPT !.weight[edge] = @ + 1, !.papers[edge] = @ \cup {paper_id}]
      ELSE [nodes |-> graph.nodes \cup edge,
            weight |-> [e \in DOMAIN graph.weight \cup {edge} |->
                          IF e = edge THEN 1 ELSE graph.weight[e]],
            papers |-> [e \in DOMAIN graph.papers \cup {edge} |->
                          IF e = edge THEN {paper_id} ELSE graph.papers[e]]]

RECURSIVE add_pairs(_, _, _)
add_pairs(graph, pairs, paper_id) ==
  IF pairs = <<>> THEN graph
  ELSE add_pairs(add_pair(graph, Head(pairs), paper_id), Tail(pairs), paper_id)

\* The body of the loop over the groups for one paper.
add_paper(graph, authorships, paper_id) ==
  LET authors == authors_of(authorships, paper_id)
      with_node == IF Len(authors) = 1
                   THEN [graph EXCEPT !.nodes = @ \cup {authors[1]}]
                   ELSE graph
  IN  add_pairs(with_node, combinations(authors), paper_id)

RECURSIVE add_papers(_, _, _)
add_papers(graph, authorships, paper_ids) ==
  IF paper_ids = <<>> THEN graph
  ELSE add_papers(add_paper(graph, authorships, Head(paper_ids)), authorships, Tail(paper_ids))

\* coauthors(authorships): groupby visits the paper_ids in ascending order
\* and leaves out the rows without one.
coauthors(authorships) ==
  IF missing_columns(authorships, <<"paper_id", "author_id">>) # <<>>
  THEN Raise("ValueError")
  ELSE LET keys == {authorships.rows[i].paper_id.v :
                      i \in {j \in 1..NumRows(authorships) : authorships.rows[j].paper_id # Null}}
       IN  [status |-> "ok",
            graph |-> add_papers(EmptyGraph, authorships,
                                 [k \in 1..Cardinality(keys) |-> Str(sorted(keys)[k])])]

\* ------------------------------------------------------------- inputs
T_gan == <<"g","a","n">>
T_deep_learning == <<"d","e","e","p"," ","l","e","a","r","n","i","n","g">>
T_model == <<"m","o","d","e","l">>
T_blank == <<" ">>
T_dot == <<".">>

C_gan == <<"G","a","n",";">>
C_deep == <<"d","e","e","p"," ","l","e","a","r","n","i","n","g"," ",
            "t","e","c","h","n","i","q","u","e","s">>
C_organ_models == <<"o","r","g","a","n"," "," ","M","o","d","e","l","s",".">>

L_AI == <<"A","I">>
L_BIM == <<"B","I","M">>
L_GAN == <<"G","A","N">>

\* The rows of the corpus the tables are cut from; a row keeps its index label.
Corpus ==
  << [title |-> Str(C_gan), abstract |-> Str(C_organ_models),
      venue |-> Str(C_deep), labels |-> Null],
     [title |-> Str(C_organ_models), abstract |-> Str(C_deep),
      venue |-> Null, labels |-> Str(C_gan)],
     [title |-> Null, abstract |-> Str(C_gan),
      venue |-> Str(C_organ_models), labels |-> Str(C_deep)] >>

Layouts == { <<"title", "abstract">>, <<"abstract", "venue", "title">>,
             <<"venue">>, <<"title", "labels">> }

NoRepeat(q) == \A i, j \in 1..Len(q) : i # j => q[i] # q[j]

\* The sequences of at most n elements of S.
RECURSIVE SeqsUpTo(_, _)
SeqsUpTo(S, n) ==
  IF n = 0 THEN {<<>>}
  ELSE LET shorter == SeqsUpTo(S, n - 1)
       IN  shorter \cup {Append(q, x) : q \in shorter, x \in S}

\* A table: some rows of the corpus in some order, under a column layout.  The
\* index labels are the rows' positions in the corpus, counted from 0.
TableOf(layout, picks) ==
  [columns |-> layout,
   index |-> [k \in 1..Len(picks) |-> picks[k] - 1],
   rows |-> [k \in 1..Len(picks) |->
               [column \in Range(layout) |-> Corpus[picks[k]][column]]]]

Picks == {q \in SeqsUpTo(1..Len(Corpus), MaxRows) : q # <<>> /\ NoRepeat(q)}

Tables == {TableOf(layout, picks) : layout \in Layouts, picks \in Picks}

TermPool == {T_gan, T_model, T_blank, T_dot}
TermLists == SeqsUpTo(TermPool, MaxTerms)

M_regex == <<"r","e","g","e","x">>
Modes == {M_lemma, M_minmatch, M_substring, M_regex}

ColumnArgs == {None, Some(<<"venue">>), Some(<<"labels", "abstract">>)}

MinMatchArgs == {None} \cup {Some(k) : k \in (0 - 1)..MaxMinMatch}

\* Rule entries, as the mappings a rule-set lists.
EntryPool ==
  { [label |-> L_AI, any |-> List(<<T_deep_learning, T_gan>>)],
    [label |-> L_GAN, match |-> M_all, terms |-> List(<<T_model, T_gan>>)],
    [label |-> L_AI, terms |-> Str(T_gan), mode |-> <<"S","u","b","s","t","r","i","n","g">>],
    [label |-> L_BIM, match |-> M_all, all |-> List(<<T_gan, T_model>>), min_match |-> 1],
    [label |-> L_BIM, match |-> <<"A","L","L">>, any |-> List(<<T_gan, T_blank>>),
     columns |-> List(<<"venue">>)],
    [label |-> L_BIM, match |-> M_all, terms |-> List(<<T_gan>>),
     columns |-> List(<<"labels">>)],
    [label |-> L_GAN, terms |-> List(<<T_model>>), mode |-> M_regex],
    [scalar |-> T_gan] }

RuleSets == SeqsUpTo(EntryPool, MaxRules)

LabelColumns == {"labels", "title"}

\* Entries the parser skips: no mapping, no label, a blank label, no terms,
\* only blank terms.
SkippedPool ==
  { [scalar |-> T_model],
    [terms |-> List(<<T_gan>>)],
    [label |-> T_blank, any |-> List(<<T_gan>>)],
    [label |-> L_BIM, match |-> M_all],
    [label |-> L_BIM, terms |-> List(<<T_blank>>), all |-> Str(<<>>)] }

\* Entries the parser keeps, with labels no skipped entry carries.
KeptPool ==
  { [label |-> L_AI, any |-> List(<<T_deep_learning, T_gan>>)],
    [label |-> L_GAN, match |-> M_all, terms |-> List(<<T_model, T_gan>>)] }

MixedRuleSets == SeqsUpTo(SkippedPool \cup KeptPool, MaxRules)

\* The rows the raw tables of the loader are cut from.
P_1 == <<"P","1">>
P_2 == <<"P","2">>
P_3 == <<"P","3">>
Y_2021 == <<"2","0","2","1">>
Y_nd == <<"n",".","d",".">>

RawPapersCorpus ==
  << [id |-> Str(P_1), paperID |-> Str(P_1), paper |-> Str(P_1),
      title |-> Str(C_gan), year |-> Str(Y_2021), venue |-> Str(C_deep)],
     [id |-> Str(P_2), paperID |-> Str(P_2), paper |-> Str(P_2),
      title |-> Str(C_organ_models), year |-> Number(2019), venue |-> Null],
     [id |-> Str(P_3), paperID |-> Str(P_3), paper |-> Str(P_3),
      title |-> Null, year |-> Str(Y_nd), venue |-> Str(C_gan)] >>

RawPapersLayouts == { <<"id", "title", "year">>, <<"title", "venue">>, <<"title", "year">>,
                      <<"year", "paperID">>, <<"venue", "paper", "title">> }

N_alice == <<"a","l","i","c","e"," ","t","a","n">>
N_bob == <<"B","O","B"," ","L","E","E">>
N_carla == <<" ","C","a","r","l","a"," "," ","G","o","m","e","z"," ">>
A_1 == <<"A","1">>
A_2 == <<"A","2">>
A_3 == <<"A","3">>

RawAuthorsCorpus ==
  << [id |-> Str(A_1), author_id |-> Str(A_1), author |-> Str(N_alice), name |-> Str(N_alice)],
     [id |-> Str(A_2), author_id |-> Str(A_2), author |-> Str(N_bob), name |-> Str(N_bob)],
     [id |-> Str(A_3), author_id |-> Str(A_3), author |-> Str(N_carla), name |-> Str(N_carla)] >>

RawAuthorsLayouts == { <<"id", "author">>, <<"name">>, <<"name", "author_id">>, <<"id">> }

RawAuthorshipsCorpus ==
  << [paper |-> Str(P_1), paper_id |-> Str(P_1), author |-> Str(A_1),
      person_id |-> Str(A_1), author_id |-> Str(A_1)],
     [paper |-> Str(P_1), paper_id |-> Str(P_1), author |-> Str(A_2),
      person_id |-> Str(A_2), author_id |-> Str(A_2)],
     [paper |-> Str(P_2), paper_id |-> Str(P_2), author |-> Str(A_2),
      person_id |-> Str(A_2), author_id |-> Str(A_2)] >>

RawAuthorshipsLayouts == { <<"paper", "author">>, <<"paper_id", "person_id">>,
                           <<"author_id", "paper_id">>, <<"paper">> }

\* A table of some rows of a corpus under a column layout, indexed by the
\* rows' positions in the corpus, counted from 0.
TableFrom(corpus, layout, picks) ==
  [columns |-> layout,
   index |-> [k \in 1..Len(picks) |-> picks[k] - 1],
   rows |-> [k \in 1..Len(picks) |->
               [column \in Range(layout) |-> corpus[picks[k]][column]]]]

RawPapers ==
  {TableFrom(RawPapersCorpus, layout, picks) : layout \in RawPapersLayouts, picks \in Picks}
RawAuthors ==
  {TableFrom(RawAuthorsCorpus, layout, picks) : layout \in RawAuthorsLayouts, picks \in Picks}
RawAuthorships ==
  {TableFrom(RawAuthorshipsCorpus, layout, picks) :
     layout \in RawAuthorshipsLayouts, picks \in Picks}

\* The papers the deduplicator's tables are cut from.
D_deep_bim == <<"D","e","e","p"," ","B","I","M">>
D_deep_bim_dot == <<"d","e","e","p"," "," ","b","i","m",".">>
D_deep_bim_models == <<"d","e","e","p"," ","b","i","m"," ","M","O","D","E","L","S">>
D_bim_models_gan == <<"B","i","m"," ","m","o","d","e","l","s",","," ","G","a","n">>
P_4 == <<"P","4">>
P_5 == <<"P","5">>
P_10 == <<"P","1","0">>

\* Three papers of 2021 whose titles overlap in a chain (2/3, 1/2, and 1/4
\* between the ends), and the first title again in 2019 and without a year.
DedupeCorpus ==
  << [paper_id |-> Str(P_2), title |-> Str(D_deep_bim), year |-> Number(2021)],
     [paper_id |-> Str(P_10), title |-> Str(D_deep_bim_models), year |-> Number(2021)],
     [paper_id |-> Str(P_1), title |-> Str(D_bim_models_gan), year |-> Number(2021)],
     [paper_id |-> Str(P_4), title |-> Str(D_deep_bim_dot), year |-> Number(2019)],
     [paper_id |-> Str(P_5), title |-> Str(D_deep_bim), year |-> Null] >>

PaperPicks == {q \in SeqsUpTo(1..Len(DedupeCorpus), MaxPapers) : q # <<>> /\ NoRepeat(q)}

PaperColumns == <<"paper_id", "title", "year">>

\* The papers of the sample tables of tests/test_analysis_capabilities.py.
S_title_P1 == <<"D","e","e","p"," ","L","e","a","r","n","i","n","g"," ","f","o","r"," ",
                "B","u","i","l","d","i","n","g"," ",
                "I","n","f","o","r","m","a","t","i","o","n"," ",
                "M","o","d","e","l","l","i","n","g">>
S_title_P2 == <<"G","A","N","-","a","s","s","i","s","t","e","d"," ",
                "U","r","b","a","n"," ","D","e","s","i","g","n">>
S_title_P3 == <<"R","u","l","e","-","b","a","s","e","d"," ",
                "P","l","a","n","n","i","n","g"," ","S","y","s","t","e","m","s">>
S_title_P4 == <<"D","e","e","p"," ","L","e","a","r","n","i","n","g"," ","f","o","r"," ",
                "B","u","i","l","d","i","n","g"," ",
                "I","n","f","o","r","m","a","t","i","o","n"," ",
                "M","o","d","e","l","i","n","g">>

SamplePapers ==
  [columns |-> PaperColumns,
   index |-> <<0, 1, 2, 3>>,
   rows |-> << [paper_id |-> Str(P_1), title |-> Str(S_title_P1), year |-> Number(2021)],
               [paper_id |-> Str(P_2), title |-> Str(S_title_P2), year |-> Number(2022)],
               [paper_id |-> Str(P_3), title |-> Str(S_title_P3), year |-> Number(2019)],
               [paper_id |-> Str(P_4), title |-> Str(S_title_P4), year |-> Number(2021)] >>]

DedupeTables ==
  {TableFrom(DedupeCorpus, PaperColumns, picks) : picks \in PaperPicks} \cup {SamplePapers}

\* Thresholds: in (0, 1], and outside it.
S_9_10 == <<9, 10>>
Similarities == { <<1, 4>>, <<1, 2>>, <<2, 3>>, S_9_10, <<1, 1>>, <<0, 1>>, <<11, 10>> }

\* The tables with the rows of the table in another order.
Shuffles(table) ==
  {[columns |-> table.columns,
    index |-> [k \in 1..NumRows(table) |-> table.index[order[k]]],
    rows |-> [k \in 1..NumRows(table) |-> table.rows[order[k]]]] :
     order \in {q \in [1..NumRows(table) -> 1..NumRows(table)] : NoRepeat(q)}}

\* The authors normalize_authors is called on: names of one, two and three
\* tokens, with stray whitespace and case, and two authors of one display
\* name.
N_plato == <<"p","L","A","T","O">>
N_ada == <<"a","d","a"," ","b","y","r","o","n"," ","L","O","V","E","L","A","C","E">>
N_alice_tan == <<"A","l","i","c","e"," "," ","T","A","N">>
A_4 == <<"A","4">>
A_5 == <<"A","5">>
A_6 == <<"A","6">>

AuthorsCorpus ==
  << [author_id |-> Str(A_1), name |-> Str(N_alice)],
     [author_id |-> Str(A_2), name |-> Str(N_bob)],
     [author_id |-> Str(A_3), name |-> Str(N_carla)],
     [author_id |-> Str(A_4), name |-> Str(N_plato)],
     [author_id |-> Str(A_5), name |-> Str(N_ada)],
     [author_id |-> Str(A_6), name |-> Str(N_alice_tan)] >>

AuthorsLayouts == { <<"author_id", "name">>, <<"name", "author_id">> }

AuthorPicks == {q \in SeqsUpTo(1..Len(AuthorsCorpus), MaxRows) : q # <<>> /\ NoRepeat(q)}

AuthorTables ==
  {TableFrom(AuthorsCorpus, layout, picks) : layout \in AuthorsLayouts, picks \in AuthorPicks}

\* The tables validate_schema is handed: well-formed ones, ones without a
\* required column, and ones that repeat an identifier.
SchemaPapersCorpus ==
  << [paper_id |-> Str(P_1), title |-> Str(D_deep_bim), year |-> Number(2021)],
     [paper_id |-> Str(P_2), title |-> Str(D_deep_bim_models), year |-> Number(2021)],
     [paper_id |-> Str(P_1), title |-> Str(D_bim_models_gan), year |-> Number(2019)] >>
SchemaPapersLayouts == { <<"paper_id", "title", "year">>, <<"title", "year">>, <<"paper_id">> }
SchemaPapers ==
  {TableFrom(SchemaPapersCorpus, layout, picks) : layout \in SchemaPapersLayouts, picks \in Picks}

SchemaAuthorsCorpus ==
  << [author_id |-> Str(A_1), name |-> Str(N_alice)],
     [author_id |-> Str(A_2), name |-> Str(N_bob)],
     [author_id |-> Str(A_1), name |-> Str(N_carla)] >>
SchemaAuthorsLayouts == { <<"author_id", "name">>, <<"name">>, <<"author_id">> }
SchemaAuthors ==
  {TableFrom(SchemaAuthorsCorpus, layout, picks) : layout \in SchemaAuthorsLayouts, picks \in Picks}

SchemaAuthorships ==
  {TableFrom(RawAuthorshipsCorpus, layout, <<1, 2>>) :
     layout \in { <<"paper_id", "author_id">>, <<"paper_id">>, <<"author">> }}

\* A table of a kind validate_schema does not know.
Affiliations == TableFrom(RawAuthorsCorpus, <<"id">>, <<1>>)

\* The mappings of table names to tables around a papers table.
Mappings(papers_table) ==
  {[name \in names |->
      CASE name = "papers" -> papers_table
        [] name = "authors" -> authors
        [] name = "authorships" -> authorships
        [] name = "affiliations" -> Affiliations] :
     names \in SUBSET {"papers", "authors", "authorships", "affiliations"},
     authors \in SchemaAuthors,
     authorships \in SchemaAuthorships}

\* The tokens _lemmatise is called on: a beginning of at most MaxStem
\* letters and an ending of at most three letters of the suffixes.
Tokens ==
  {stem \o ending : stem \in SeqsUpTo({"g", "a", "s"}, MaxStem),
                    ending \in SeqsUpTo({"i", "n", "g", "e", "d", "s"}, 3)}

\* No table in the caller's hands.
NoTable == [columns |-> <<>>, index |-> <<>>, rows |-> <<>>]

\* The BibTeX texts parse_bibtex_entries is called on: entries of a type, a
\* key and fields, each written as a header line, its field lines and a
\* closing line.
B_article == <<"a","r","t","i","c","l","e">>
B_book == <<"b","o","o","k">>
B_smith2020 == <<"s","m","i","t","h","2","0","2","0">>
B_doe2021 == <<"d","o","e","2","0","2","1">>
B_title == <<"t","i","t","l","e">>
B_Year == <<"Y","e","a","r">>
B_Design_Futures == <<"D","e","s","i","g","n"," ","F","u","t","u","r","e","s">>
B_2020 == <<"2","0","2","0">>

FieldLists ==
  { <<>>,
    <<[name |-> B_title, value |-> B_Design_Futures]>>,
    <<[name |-> B_title, value |-> B_Design_Futures], [name |-> B_Year, value |-> B_2020]>>,
    <<[name |-> B_Year, value |-> B_2020], [name |-> B_title, value |-> B_2020],
      [name |-> B_title, value |-> B_Design_Futures]>> }

EntriesGiven ==
  { [entry_type |-> entry_type, citation_key |-> citation_key, fields |-> fields] :
      entry_type \in {B_article, B_book},
      citation_key \in {B_smith2020, B_doe2021},
      fields \in FieldLists }

\* "@type{key,", "  name={value}," for each field, "}"
entry_lines(entry) ==
  << <<"@">> \o entry.entry_type \o <<"{">> \o entry.citation_key \o <<",">> >>
  \o [k \in 1..Len(entry.fields) |->
        <<" ", " ">> \o entry.fields[k].name \o <<"=", "{">>
        \o entry.fields[k].value \o <<"}", ",">>]
  \o << <<"}">> >>

RECURSIVE text_of(_)
text_of(entries) ==
  IF entries = <<>> THEN << <<>> >>
  ELSE << <<>> >> \o entry_lines(Head(entries)) \o text_of(Tail(entries))

BibTexts == {entries \in SeqsUpTo(EntriesGiven, MaxEntries) : entries # <<>>}

\* The keys and values a report is staged with.
V_rising == <<"r","i","s","i","n","g">>
V_flat == <<"f","l","a","t">>
ReportKeys == {"trend", "geo"}
ReportValues == {Str(V_rising), Str(V_flat), Null}
ReportItems == {dict_put(EmptyDict, key, value) : key \in ReportKeys, value \in ReportValues}
RenderContexts == {None} \cup {Some(items) : items \in ReportItems \cup {EmptyDict}}
R_design == <<"d","e","s","i","g","n">>

\* The names looked up on the package.
AttributeNames == SUBMODULES \cup {"cohen_d", "by_keywords", "import_module", "_SUBMODULES"}

\* The authorship tables coauthors is called on: rows of two papers and
\* three authors, a row without an author and a row without a paper, in any
\* order and with repeats.
LinkPool ==
  { [paper_id |-> Str(P_1), author_id |-> Str(A_1)],
    [paper_id |-> Str(P_1), author_id |-> Str(A_2)],
    [paper_id |-> Str(P_1), author_id |-> Str(A_3)],
    [paper_id |-> Str(P_2), author_id |-> Str(A_1)],
    [paper_id |-> Str(P_2), author_id |-> Str(A_2)],
    [paper_id |-> Str(P_2), author_id |-> Null],
    [paper_id |-> Null, author_id |-> Str(A_3)] }

LinkTable(rows) ==
  [columns |-> <<"paper_id", "author_id">>,
   index |-> [k \in 1..Len(rows) |-> k - 1],
   rows |-> rows]

LinkTables ==
  {LinkTable(rows) : rows \in SeqsUpTo(LinkPool, MaxLinks)}
  \cup {[columns |-> <<"paper_id">>, index |-> <<0>>, rows |-> <<[paper_id |-> Str(P_1)]>>]}

\* The rule entries given in one order and in another: two rules for one
\* label, a rule for a second label and a rule that searches the label
\* column.
OrderPool ==
  { [label |-> L_AI, any |-> List(<<T_deep_learning, T_gan>>)],
    [label |-> L_GAN, match |-> M_all, terms |-> List(<<T_model, T_gan>>)],
    [label |-> L_AI, terms |-> Str(T_model), mode |-> M_substring],
    [label |-> L_BIM, terms |-> List(<<T_gan>>), columns |-> List(<<"labels", "title">>)] }

OrderedRuleSets == SeqsUpTo(OrderPool, MaxRules)

\* The sequences with the entries of q in every order.
Reorderings(q) ==
  {[k \in 1..Len(q) |-> q[order[k]]] :
     order \in {f \in [1..Len(q) -> 1..Len(q)] : \A i, j \in 1..Len(q) : i # j => f[i] # f[j]}}

\* Rule entries put together from the values under the keys terms, any and
\* all, each of them there or not, and the other keys of the entry.
TermValues == {Str(T_gan), List(<<T_model, T_gan>>), List(<<T_deep_learning, T_blank>>)}
TermsGiven == {None} \cup {Some(value) : value \in TermValues}
EntryRests ==
  { [label |-> L_AI],
    [label |-> L_AI, match |-> M_all],
    [label |-> L_AI, min_match |-> 2],
    [label |-> L_AI, mode |-> M_substring],
    [label |-> L_AI, match |-> M_all, mode |-> M_substring, columns |-> List(<<"venue">>)] }

\* The entry with the values under their keys.
EntryOf(rest, terms, any, all) ==
  rest @@ (IF terms = None THEN <<>> ELSE [terms |-> Get(terms)])
       @@ (IF any = None THEN <<>> ELSE [any |-> Get(any)])
       @@ (IF all = None THEN <<>> ELSE [all |-> Get(all)])

\* ------------------------------------------------------------- state
VARIABLES papers, call, result, registry, template, namespace

\* The state of the process outside the caller's table: the dict of the
\* report registry, the context of the notebook template and the globals of
\* the package.
process == <<registry, template, namespace>>

vars == <<papers, call, result, registry, template, namespace>>

ProcessStart ==
  /\ registry = EmptyDict
  /\ template = EmptyDict
  /\ namespace = ModuleGlobals

\* The caller's table, before any call.
Init ==
  /\ papers \in Tables
  /\ call = [op |-> "none"]
  /\ result = [status |-> "none"]
  /\ ProcessStart

\* One call of by_keywords on the caller's table.  by_keywords writes to no
\* frame: it reads the table and returns a copy of the selected rows.
ByKeywords ==
  /\ call.op = "none"
  /\ papers \in Tables
  /\ \E terms \in TermLists, mode \in Modes, columns \in ColumnArgs,
        min_match \in MinMatchArgs :
       /\ (mode # M_minmatch => min_match \in {None, Some(1)})
       /\ call' = [op |-> "by_keywords", terms |-> terms, mode |-> mode,
                   columns |-> columns, min_match |-> min_match]
       /\ result' = by_keywords(papers, terms, mode, columns, min_match)
  /\ UNCHANGED <<papers, process>>

\* One call of label_by_rules on the caller's table.
LabelByRules ==
  /\ call.op = "none"
  /\ papers \in Tables
  /\ \E rules_yaml \in RuleSets, label_column \in LabelColumns :
       /\ call' = [op |-> "label_by_rules", rules_yaml |-> rules_yaml,
                   label_column |-> label_column]
       /\ result' = label_by_rules(papers, rules_yaml, label_column)
       /\ papers' = papers_after_label_by_rules(papers, rules_yaml, label_column)
       /\ UNCHANGED process

\* One call of label_by_rules with a rule-set that mixes entries the parser
\* skips with entries it keeps.
LabelByMixedRules ==
  /\ call.op = "none"
  /\ papers \in Tables
  /\ \E rules_yaml \in MixedRuleSets, label_column \in LabelColumns :
       /\ call' = [op |-> "label_by_rules", rules_yaml |-> rules_yaml,
                   label_column |-> label_column]
       /\ result' = label_by_rules(papers, rules_yaml, label_column)
       /\ papers' = papers_after_label_by_rules(papers, rules_yaml, label_column)
       /\ UNCHANGED process

\* The Table Loader normalising a papers table it has read.
NormalisePapers ==
  /\ call.op = "none"
  /\ papers \in RawPapers
  /\ LET run == normalise_papers_run(papers)
     IN  /\ call' = [op |-> "normalise_papers"]
         /\ result' = run.outcome
         /\ papers' = callers_table(papers, copy(papers), run.written)
         /\ UNCHANGED process

\* The Table Loader normalising an authors table it has read.
NormaliseAuthors ==
  /\ call.op = "none"
  /\ papers \in RawAuthors
  /\ LET run == normalise_authors_run(papers)
     IN  /\ call' = [op |-> "normalise_authors"]
         /\ result' = run.outcome
         /\ papers' = callers_table(papers, copy(papers), run.written)
         /\ UNCHANGED process

\* The Table Loader normalising an authorships table it has read.
NormaliseAuthorships ==
  /\ call.op = "none"
  /\ papers \in RawAuthorships
  /\ LET run == normalise_authorships_run(papers)
     IN  /\ call' = [op |-> "normalise_authorships"]
         /\ result' = run.outcome
         /\ papers' = callers_table(papers, copy(papers), run.written)
         /\ UNCHANGED process

\* One call of dedupe_papers on the caller's table.
DedupePapers ==
  /\ call.op = "none"
  /\ papers \in DedupeTables
  /\ \E similarity \in Similarities :
       /\ call' = [op |-> "dedupe_papers", round |-> 1, input |-> papers,
                   similarity |-> similarity]
       /\ result' = dedupe_papers(papers, similarity)
  /\ UNCHANGED <<papers, process>>

\* The record of a second call of dedupe_papers, after a first one returned.
second_call(input, similarity) ==
  [op |-> "dedupe_papers", round |-> 2, input |-> input, similarity |-> similarity,
   first_similarity |-> call.similarity, first_result |-> result]

\* dedupe_papers on the table the first call returned, with its threshold.
DedupeOutput ==
  /\ call.op = "dedupe_papers" /\ call.round = 1 /\ result.status = "ok"
  /\ call' = second_call(result.table, call.similarity)
  /\ result' = dedupe_papers(result.table, call.similarity)
  /\ UNCHANGED <<papers, process>>

\* dedupe_papers on the caller's table with its rows in another order, with
\* the threshold of the first call.
DedupeShuffled ==
  /\ call.op = "dedupe_papers" /\ call.round = 1 /\ result.status = "ok"
  /\ \E shuffled \in Shuffles(papers) \ {papers} :
       /\ call' = second_call(shuffled, call.similarity)
       /\ result' = dedupe_papers(shuffled, call.similarity)
  /\ UNCHANGED <<papers, process>>

\* dedupe_papers on the caller's table again, with another threshold.
DedupeOtherSimilarity ==
  /\ call.op = "dedupe_papers" /\ call.round = 1 /\ result.status = "ok"
  /\ \E similarity \in Similarities \ {call.similarity} :
       /\ call' = second_call(papers, similarity)
       /\ result' = dedupe_papers(papers, similarity)
  /\ UNCHANGED <<papers, process>>

\* authors = normalize_authors(authors) on a table of authors.
NormalizeAuthors ==
  /\ call.op = "none"
  /\ papers \in AuthorTables
  /\ call' = [op |-> "normalize_authors"]
  /\ result' = normalize_authors(papers)
  /\ UNCHANGED <<papers, process>>

\* report = validate_schema(tables) on a mapping of the caller's tables.
ValidateSchema ==
  /\ call.op = "none"
  /\ papers \in SchemaPapers
  /\ \E tables \in Mappings(papers) :
       /\ call' = [op |-> "validate_schema", tables |-> tables]
       /\ result' = validate_schema(tables)
  /\ UNCHANGED <<papers, process>>

\* stem = _lemmatise(token)
Lemmatise ==
  /\ call.op = "none"
  /\ papers = NoTable
  /\ \E token \in Tokens :
       /\ call' = [op |-> "lemmatise", token |-> token]
       /\ result' = [status |-> "ok", value |-> lemmatise(token)]
  /\ UNCHANGED <<papers, process>>

\* entries = parse_bibtex_entries(text) on the text of some entries.
ParseBibtexEntries ==
  /\ call.op = "none"
  /\ papers = NoTable
  /\ \E given \in BibTexts :
       /\ call' = [op |-> "parse_bibtex_entries", given |-> given, text |-> text_of(given)]
       /\ result' = parse_bibtex_entries(text_of(given))
  /\ UNCHANGED <<papers, process>>

\* The calls made so far, this one included.
Logged(entry) == Append(call.log, entry)
MayCall == Len(call.log) < MaxOps

\* report.capture(key, value)
Capture ==
  /\ MayCall
  /\ \E key \in ReportKeys, value \in ReportValues :
       /\ call' = [op |-> "capture", log |-> Logged([op |-> "capture", key |-> key, value |-> value])]
       /\ registry' = dict_put(registry, key, value)
  /\ result' = [status |-> "ok"]
  /\ UNCHANGED <<papers, template, namespace>>

\* report.reset()
Reset ==
  /\ MayCall
  /\ call' = [op |-> "reset", log |-> Logged([op |-> "reset"])]
  /\ registry' = EmptyDict
  /\ result' = [status |-> "ok"]
  /\ UNCHANGED <<papers, template, namespace>>

\* snapshot = _registry.snapshot()
Snapshot ==
  /\ MayCall
  /\ call' = [op |-> "snapshot", log |-> Logged([op |-> "snapshot"])]
  /\ result' = [status |-> "ok", snapshot |-> dict_copy(registry)]
  /\ UNCHANGED <<papers, process>>

\* snapshot[key] = value by the caller that holds the snapshot returned last.
ChangeSnapshot ==
  /\ MayCall
  /\ call.op = "snapshot"
  /\ \E key \in ReportKeys, value \in ReportValues :
       LET written == dict_put(result.snapshot.data, key, value)
       IN  /\ call' = [op |-> "change_snapshot", log |-> Logged([op |-> "change_snapshot"]),
                       taken |-> result.snapshot.data]
           /\ result' = [status |-> "ok", snapshot |-> [result.snapshot EXCEPT !.data = written]]
           /\ registry' = registry_after_write(registry, result.snapshot, written)
  /\ UNCHANGED <<papers, template, namespace>>

\* template.with_context(key=value)
WithContext ==
  /\ MayCall
  /\ \E items \in ReportItems :
       /\ call' = [op |-> "with_context", log |-> Logged([op |-> "with_context"])]
       /\ template' = dict_update(template, items)
  /\ result' = [status |-> "ok"]
  /\ UNCHANGED <<papers, registry, namespace>>

\* The call record and the result of template.render(out=..., context=context).
rendered(context) ==
  [status |-> "ok",
   context |-> combined_context(dict_copy(registry).data, template, context),
   html |-> render_html(R_design, combined_context(dict_copy(registry).data, template, context))]

\* template.render(out=..., context=context)
Render ==
  /\ MayCall
  /\ \E context \in RenderContexts :
       /\ call' = [op |-> "render", log |-> Logged([op |-> "render"]), context |-> context,
                   again |-> FALSE, registry_before |-> registry, template_before |-> template]
       /\ result' = rendered(context)
  /\ UNCHANGED <<papers, process>>

\* template.render once more with the context of the render before.
RenderAgain ==
  /\ call.op = "render"
  /\ ~call.again
  /\ call' = [call EXCEPT !.again = TRUE] @@ [first_html |-> result.html]
  /\ result' = rendered(call.context)
  /\ UNCHANGED <<papers, process>>

\* getattr(design_metrics, name): the module's own lookup, and __getattr__
\* when the name is not bound.
GetAttr ==
  /\ \E name \in AttributeNames :
       /\ call' = [op |-> "getattr", name |-> name, before |-> namespace, log |-> <<>>]
       /\ IF name \in DOMAIN namespace
          THEN /\ result' = [status |-> "ok", value |-> namespace[name]]
               /\ namespace' = namespace
          ELSE LET run == package_getattr(namespace, name)
               IN  /\ result' = run.outcome
                   /\ namespace' = run.globals
  /\ UNCHANGED <<papers, registry, template>>

\* graph = coauthors(authorships)
Coauthors ==
  /\ call.op = "none"
  /\ papers \in LinkTables
  /\ call' = [op |-> "coauthors", round |-> 1, authorships |-> papers]
  /\ result' = coauthors(papers)
  /\ UNCHANGED <<papers, process>>

\* coauthors once more, on the table with one of its rows repeated.
CoauthorsRepeated ==
  /\ call.op = "coauthors"
  /\ call.round = 1
  /\ result.status = "ok"
  /\ \E i \in 1..NumRows(papers) :
       LET repeated == LinkTable(Append(papers.rows, papers.rows[i]))
       IN  /\ call' = [op |-> "coauthors", round |-> 2, authorships |-> repeated,
                       first_graph |-> result.graph]
           /\ result' = coauthors(repeated)
  /\ UNCHANGED <<papers, process>>

\* One call of label_by_rules with a rule-set of some entries in some order.
LabelByOrderedRules ==
  /\ call.op = "none"
  /\ papers \in Tables
  /\ \E rules_yaml \in OrderedRuleSets :
       /\ call' = [op |-> "label_by_rules", round |-> 1, rules_yaml |-> rules_yaml,
                   label_column |-> "labels"]
       /\ result' = label_by_rules(papers, rules_yaml, "labels")
       /\ papers' = papers_after_label_by_rules(papers, rules_yaml, "labels")
       /\ UNCHANGED process

\* label_by_rules once more, with the same entries in another order.
LabelByReorderedRules ==
  /\ call.op = "label_by_rules"
  /\ call.round = 1
  /\ \E rules_yaml \in Reorderings(call.rules_yaml) \ {call.rules_yaml} :
       /\ call' = [op |-> "label_by_rules", round |-> 2, rules_yaml |-> rules_yaml,
                   label_column |-> "labels", first_result |-> result]
       /\ result' = label_by_rules(papers, rules_yaml, "labels")
       /\ papers' = papers_after_label_by_rules(papers, rules_yaml, "labels")
       /\ UNCHANGED process

\* rules = _parse_rules({"rules": [entry]})
ParseRules ==
  /\ call.op = "none"
  /\ papers = NoTable
  /\ \E rest \in EntryRests, terms \in TermsGiven, any \in TermsGiven, all \in TermsGiven :
       /\ call' = [op |-> "parse_rules", rest |-> rest, terms |-> terms, any |-> any,
                   all |-> all, entry |-> EntryOf(rest, terms, any, all)]
       /\ result' = [status |-> "ok", rules |-> parse_rules(<<EntryOf(rest, terms, any, all)>>)]
  /\ UNCHANGED <<papers, process>>

\* The filter: calls of by_keywords.
Next == ByKeywords

Spec == Init /\ [][Next]_vars

\* The labeller: calls of label_by_rules.
NextLabel == LabelByRules

SpecLabel == Init /\ [][NextLabel]_vars

\* The parser of rule-sets: calls of label_by_rules with entries it skips.
NextParse == LabelByMixedRules

SpecParse == Init /\ [][NextParse]_vars

\* The filter and the labeller together.
NextCalls == ByKeywords \/ LabelByRules

SpecCalls == Init /\ [][NextCalls]_vars

\* The deduplicator: a call of dedupe_papers, and a second call to compare it
\* with.
InitDedupe ==
  /\ papers \in DedupeTables
  /\ call = [op |-> "none"]
  /\ result = [status |-> "none"]
  /\ ProcessStart

NextDedupe ==
  \/ DedupePapers
  \/ DedupeOutput
  \/ DedupeShuffled
  \/ DedupeOtherSimilarity

SpecDedupe == InitDedupe /\ [][NextDedupe]_vars

\* Every entry point that is handed a table of the caller: the table is a
\* corpus table or a raw table the loader has read.
InitOwner ==
  /\ papers \in Tables \cup RawPapers \cup RawAuthors \cup RawAuthorships
  /\ call = [op |-> "none"]
  /\ result = [status |-> "none"]
  /\ ProcessStart

NextOwner ==
  \/ ByKeywords
  \/ LabelByRules
  \/ NormalisePapers
  \/ NormaliseAuthors
  \/ NormaliseAuthorships

SpecOwner == InitOwner /\ [][NextOwner]_vars

\* The cleaner of author names: calls of normalize_authors.
InitAuthors ==
  /\ papers \in AuthorTables
  /\ call = [op |-> "none"]
  /\ result = [status |-> "none"]
  /\ ProcessStart

NextAuthors == NormalizeAuthors

SpecAuthors == InitAuthors /\ [][NextAuthors]_vars

\* The validator: calls of validate_schema.
InitSchema ==
  /\ papers \in SchemaPapers
  /\ call = [op |-> "none"]
  /\ result = [status |-> "none"]
  /\ ProcessStart

NextSchema == ValidateSchema

SpecSchema == InitSchema /\ [][NextSchema]_vars

\* The Table Loader: the normalisers on the tables it has read.
InitLoader ==
  /\ papers \in RawPapers \cup RawAuthors \cup RawAuthorships
  /\ call = [op |-> "none"]
  /\ result = [status |-> "none"]
  /\ ProcessStart

NextLoader ==
  \/ NormalisePapers
  \/ NormaliseAuthors
  \/ NormaliseAuthorships

SpecLoader == InitLoader /\ [][NextLoader]_vars

\* The stemmer: calls of _lemmatise.
InitLemma ==
  /\ papers = NoTable
  /\ call = [op |-> "none"]
  /\ result = [status |-> "none"]
  /\ ProcessStart

NextLemma == Lemmatise

SpecLemma == InitLemma /\ [][NextLemma]_vars

\* The BibTeX parser: calls of parse_bibtex_entries.
InitBibtex ==
  /\ papers = NoTable
  /\ call = [op |-> "none"]
  /\ result = [status |-> "none"]
  /\ ProcessStart

NextBibtex == ParseBibtexEntries

SpecBibtex == InitBibtex /\ [][NextBibtex]_vars

\* The process before any call, with no table in the caller's hands.
InitProcess ==
  /\ papers = NoTable
  /\ call = [op |-> "none", log |-> <<>>]
  /\ result = [status |-> "none"]
  /\ ProcessStart

\* The report registry: captures, resets and snapshots.
NextRegistry == Capture \/ Reset \/ Snapshot \/ ChangeSnapshot

SpecRegistry == InitProcess /\ [][NextRegistry]_vars

\* The notebook template: staging values and rendering.
NextRender == Capture \/ Reset \/ WithContext \/ Render \/ RenderAgain

SpecRender == InitProcess /\ [][NextRender]_vars

\* The package: attribute lookups.
NextPackage == GetAttr

SpecPackage == InitProcess /\ [][NextPackage]_vars

\* The co-authorship graph: calls of coauthors.
InitGraph ==
  /\ papers \in LinkTables
  /\ call = [op |-> "none"]
  /\ result = [status |-> "none"]
  /\ ProcessStart

NextGraph == Coauthors \/ CoauthorsRepeated

SpecGraph == InitGraph /\ [][NextGraph]_vars

\* The labeller on one rule-set in several orders.
NextOrder == LabelByOrderedRules \/ LabelByReorderedRules

SpecOrder == Init /\ [][NextOrder]_vars

\* The parser of rule entries: calls of _parse_rules on one entry.
InitKeys ==
  /\ papers = NoTable
  /\ call = [op |-> "none"]
  /\ result = [status |-> "none"]
  /\ ProcessStart

NextKeys == ParseRules

SpecKeys == InitKeys /\ [][NextKeys]_vars

\* ------------------------------------------------------------- claims
Called(op) == call.op = op
Returned(op) == call.op = op /\ result.status = "ok"

\* The labels label_by_rules left in row i of its result.
LabelsOf(i) == result.table.rows[i][call.label_column]

\* Rule `rule` matches row i of the frame label_by_rules starts from.
RuleMatchesRow(rule, i) ==
  LET frame == with_label_column(papers, call.label_column)
      subset == by_keywords(frame, rule.terms, rule.mode, rule.columns, rule.min_match)
  IN  subset.status = "ok" /\ frame.index[i] \in Range(subset.table.index)

StrictlyAscending(q) == \A j, k \in 1..Len(q) : j < k => str_less(q[j], q[k])

\* C1: after label_by_rules every row of the result holds, in label_column, a
\* list of labels sorted ascending without a duplicate, and a row that no rule
\* of the rule-set matches holds the empty list (never a missing value).
C1_LabelsSortedUnique ==
  Returned("label_by_rules") =>
    /\ NumRows(result.table) = NumRows(papers)
    /\ \A i \in 1..NumRows(result.table) :
         /\ LabelsOf(i).kind = "list"
         /\ StrictlyAscending(LabelsOf(i).v)
         /\ (\A rule \in Range(parse_rules(call.rules_yaml)) : ~RuleMatchesRow(rule, i))
              => LabelsOf(i).v = <<>>

\* C1 witness: two rules matched one row, the rule with the greater label
\* first, and the row holds both labels; another row holds none.
C1_Witness ==
  /\ Returned("label_by_rules")
  /\ LET rules == parse_rules(call.rules_yaml)
     IN  /\ Len(rules) = 2
         /\ str_less(rules[2].label, rules[1].label)
         /\ \E i, j \in 1..NumRows(result.table) :
              /\ RuleMatchesRow(rules[1], i)
              /\ RuleMatchesRow(rules[2], i)
              /\ Len(LabelsOf(i).v) = 2
              /\ LabelsOf(j).v = <<>>

\* The index labels of the rows of the result that carry the label.
RowsLabelled(label) ==
  {result.table.index[i] :
     i \in {j \in 1..NumRows(result.table) : label \in Range(LabelsOf(j).v)}}

\* The terms an entry lists, under whichever keys, as written.
RawTerms(entry) ==
  entry_terms(entry, "terms") \o entry_terms(entry, "any") \o entry_terms(entry, "all")

\* Entry k of the rule-set parses to a rule, has match "all" and no mode, and
\* no other rule of the rule-set gives the same label.
IsMatchAllEntry(k) ==
  LET entry == call.rules_yaml[k]
  IN  /\ parse_entry(entry) # None
      /\ "match" \in DOMAIN entry
      /\ lower(entry.match) = M_all
      /\ "mode" \notin DOMAIN entry
      /\ \A j \in 1..Len(call.rules_yaml) :
           (j # k /\ parse_entry(call.rules_yaml[j]) # None)
             => Get(parse_entry(call.rules_yaml[j])).label # Get(parse_entry(entry)).label

\* by_keywords on the caller's table with the entry's terms and columns,
\* mode minmatch and min_match the number of the entry's non-blank terms.
MinMatchReference(entry) ==
  LET rule == Get(parse_entry(entry))
  IN  by_keywords(papers, RawTerms(entry), M_minmatch, rule.columns,
                  Some(Len(rule.terms)))

\* label_by_rules labelled for entry k exactly the rows of the reference, and
\* fails where the reference fails.
LabelsAsReference(k) ==
  LET entry == call.rules_yaml[k]
      reference == MinMatchReference(entry)
  IN  /\ reference.status # "ok" => result.status # "ok"
      /\ result.status = "ok" =>
           /\ reference.status = "ok"
           /\ RowsLabelled(Get(parse_entry(entry)).label) = Range(reference.table.index)

\* label_column is not a column the entry's rule can search: it is neither
\* named by the entry nor one of the default columns.
LabelColumnNotSearched(entry) ==
  LET rule == Get(parse_entry(entry))
  IN  /\ call.label_column \notin Range(default_order)
      /\ rule.columns # None => call.label_column \notin Range(Get(rule.columns))

\* C2 as stated: every entry with match "all" and no explicit mode labels
\* exactly the rows by_keywords returns for the same terms and columns with
\* mode minmatch and min_match the entry's term count (read here in its
\* ordinary case, label_column being no column the rule searches).
C2_Original ==
  Called("label_by_rules") =>
    \A k \in 1..Len(call.rules_yaml) :
      (IsMatchAllEntry(k) /\ LabelColumnNotSearched(call.rules_yaml[k]))
        => LabelsAsReference(k)

\* C2 amended: every entry with match "all", no explicit mode and no integer
\* min_match, whose searched columns cannot include label_column, labels
\* exactly the rows by_keywords returns for the same terms and columns with
\* mode minmatch and min_match the number of the entry's non-blank terms.
C2_MatchAllIsMinMatch ==
  Called("label_by_rules") =>
    \A k \in 1..Len(call.rules_yaml) :
      (/\ IsMatchAllEntry(k)
       /\ "min_match" \notin DOMAIN call.rules_yaml[k]
       /\ LabelColumnNotSearched(call.rules_yaml[k]))
        => LabelsAsReference(k)

\* C2 witness: a rule-set of one such entry with two terms labelled one row
\* and left another, which holds only one of the terms, unlabelled.
C2_Witness ==
  /\ Returned("label_by_rules")
  /\ Len(call.rules_yaml) = 1
  /\ IsMatchAllEntry(1)
  /\ "min_match" \notin DOMAIN call.rules_yaml[1]
  /\ LabelColumnNotSearched(call.rules_yaml[1])
  /\ LET rule == Get(parse_entry(call.rules_yaml[1]))
     IN  /\ Len(rule.terms) = 2
         /\ \E i, j \in 1..NumRows(result.table) :
              /\ LabelsOf(i).v = <<rule.label>>
              /\ LabelsOf(j).v = <<>>
              /\ matches(M_substring, normalised_terms_of(rule.terms), None,
                         papers.rows[j], Get(resolve_columns(papers, rule.columns)))

\* The call of by_keywords got past its early returns and its checks: it
\* built a matcher and ran it on the rows of the columns Searched.
Matched == Returned("by_keywords") /\ normalised_terms_of(call.terms) # <<>>
Searched == Get(resolve_columns(papers, call.columns))

\* The index labels of the rows of the caller's table that satisfy Keep.
IndexWhere(Keep(_)) ==
  {papers.index[i] : i \in {j \in 1..NumRows(papers) : Keep(j)}}

\* The terms the matcher of the call works with: the terms that are not
\* blank, normalised, those that normalise to the empty text left out.
UsableTerms == base_terms(normalised_terms_of(call.terms))

\* The usable terms of the call that occur in the searched text of row i: as
\* a set, and as the positions of the term list.
TermsFound(i) ==
  {term \in Range(UsableTerms) :
     Contains(haystack_of(papers.rows[i], Searched), term)}
TermPositionsFound(i) ==
  {k \in 1..Len(UsableTerms) :
     Contains(haystack_of(papers.rows[i], Searched), UsableTerms[k])}

\* C3 as stated: minmatch mode returns exactly the rows in which the number of
\* distinct terms found in the searched text is at least min_match, every
\* term having to occur when min_match is absent.
C3_Original ==
  (Matched /\ call.mode = M_minmatch /\ UsableTerms # <<>>) =>
    LET Enough(i) ==
          IF call.min_match = None
          THEN TermsFound(i) = Range(UsableTerms)
          ELSE Cardinality(TermsFound(i)) >= Get(call.min_match)
    IN  Range(result.table.index) = IndexWhere(Enough)

\* C3 amended: minmatch mode returns exactly the rows in which the number of
\* usable terms found in the searched text, a repeated term counted each time
\* it is listed, is at least the effective minimum: min_match when it is 1 or
\* more, the number of usable terms (but at least 1) when min_match is absent
\* or 0, and 1 when it is negative.  With a list of two different terms and
\* min_match 2 these are the rows holding both terms.
C3_MinMatchCounts ==
  (Matched /\ call.mode = M_minmatch) =>
    LET given == call.min_match
        every == IF UsableTerms = <<>> THEN 1 ELSE Len(UsableTerms)
        minimum == IF given = None THEN every
                   ELSE IF Get(given) = 0 THEN every
                   ELSE IF Get(given) < 0 THEN 1
                   ELSE Get(given)
        Enough(i) == Cardinality(TermPositionsFound(i)) >= minimum
    IN  /\ Range(result.table.index) = IndexWhere(Enough)
        /\ (/\ Len(UsableTerms) = 2
            /\ Cardinality(Range(UsableTerms)) = 2
            /\ given = Some(2))
             => \A i \in 1..NumRows(papers) :
                  papers.index[i] \in Range(result.table.index)
                    <=> TermsFound(i) = Range(UsableTerms)

\* C3 witness: two different terms with min_match 2 returned a row holding
\* both and left out a row holding one of them.
C3_Witness ==
  /\ Matched
  /\ call.mode = M_minmatch
  /\ call.min_match = Some(2)
  /\ Len(UsableTerms) = 2
  /\ Cardinality(Range(UsableTerms)) = 2
  /\ \E i, j \in 1..NumRows(papers) :
       /\ papers.index[i] \in Range(result.table.index)
       /\ Cardinality(TermsFound(i)) = 2
       /\ papers.index[j] \notin Range(result.table.index)
       /\ Cardinality(TermsFound(j)) = 1

\* C4: in lemma mode by_keywords returns a row exactly when the lemmatised
\* form of some term is among the lemmatised whitespace tokens of the row's
\* searched text.
C4_LemmaMatchesStems ==
  (Matched /\ call.mode = M_lemma) =>
    LET Stems(i) == {lemmatise(token) :
                       token \in haystack_terms_of(papers.rows[i], Searched)}
        Hit(i) == \E term \in Range(UsableTerms) : lemmatise(term) \in Stems(i)
    IN  Range(result.table.index) = IndexWhere(Hit)

C_deep_learning_techniques == C_deep
Rules_AI == << [label |-> L_AI, any |-> List(<<T_deep_learning, T_gan>>)] >>

\* C5: label_by_rules with the rule-set {rules: [{label: AI, any: [deep
\* learning, gan]}]} and the default label column gives the label AI to every
\* paper whose abstract contains the words "deep learning techniques".
C5_DeepLearningLabelledAI ==
  (Returned("label_by_rules") /\ call.rules_yaml = Rules_AI
     /\ call.label_column = "labels" /\ "abstract" \in Range(papers.columns)) =>
    \A i \in 1..NumRows(papers) :
      (/\ papers.rows[i].abstract.kind = "str"
       /\ Contains(papers.rows[i].abstract.v, C_deep_learning_techniques))
        => L_AI \in Range(LabelsOf(i).v)

\* C6: by_keywords with an empty list of terms returns the table's columns
\* and no row, whatever the mode, the columns and the table, and raises
\* nothing.
C6_EmptyTermsEmptyResult ==
  (Called("by_keywords") /\ call.terms = <<>>) =>
    /\ result.status = "ok"
    /\ result.table.rows = <<>>
    /\ result.table.columns = papers.columns

\* C6 witness: empty terms, an unsupported mode and a table without any
\* default text column gave an empty result.
C6_Witness ==
  /\ Called("by_keywords")
  /\ call.terms = <<>>
  /\ call.mode = M_regex
  /\ call.columns = None
  /\ Range(papers.columns) \cap Range(default_order) = {}
  /\ NumRows(papers) > 0
  /\ result.status = "ok"
  /\ result.table.rows = <<>>

\* The columns the call names that the table has, in the order named.
NamedInTable ==
  LET InTable(column) == column \in Range(papers.columns)
  IN  SelectSeq(Get(call.columns), InTable)

\* The default columns the table has, in the default order.
DefaultsInTable ==
  LET InTable(column) == column \in Range(papers.columns)
  IN  SelectSeq(default_order, InTable)

\* Row i satisfies the call's terms, mode and min_match on the given columns.
RowMatchesOn(i, columns) ==
  matches(call.mode, normalised_terms_of(call.terms), call.min_match,
          papers.rows[i], columns)

UsableCall ==
  /\ Called("by_keywords")
  /\ normalised_terms_of(call.terms) # <<>>
  /\ call.mode \in {M_lemma, M_minmatch, M_substring}

\* C7 as stated: with an explicit columns argument only the named columns are
\* searched, the default columns never: the rows returned are the rows that
\* match on the named columns.
C7_Original ==
  (UsableCall /\ call.columns # None /\ result.status = "ok") =>
    LET Hit(i) == RowMatchesOn(i, NamedInTable)
    IN  Range(result.table.index) = IndexWhere(Hit)

\* C7 amended: with an explicit columns argument of which at least one column
\* is in the table, only the named columns that are in the table are searched
\* and the default columns are not; when no named column is in the table the
\* call behaves as if no columns were given.
C7_ExplicitColumnsWin ==
  (Called("by_keywords") /\ call.columns # None) =>
    IF NamedInTable # <<>>
    THEN UsableCall =>
           LET Hit(i) == RowMatchesOn(i, NamedInTable)
           IN  /\ result.status = "ok"
               /\ Range(result.table.index) = IndexWhere(Hit)
    ELSE result = by_keywords(papers, call.terms, call.mode, None, call.min_match)

\* C7 witness: a named column of the table was searched and a row that only
\* matches in its default columns was left out, while another row was returned.
C7_Witness ==
  /\ UsableCall
  /\ call.columns # None
  /\ NamedInTable # <<>>
  /\ Range(NamedInTable) \cap Range(default_order) = {}
  /\ result.status = "ok"
  /\ \E i, j \in 1..NumRows(papers) :
       /\ papers.index[i] \notin Range(result.table.index)
       /\ DefaultsInTable # <<>>
       /\ RowMatchesOn(i, DefaultsInTable)
       /\ papers.index[j] \in Range(result.table.index)

\* C8 as stated: without a columns argument only the first of title,
\* abstract, keywords, summary that the table has is searched.
C8_Original ==
  (UsableCall /\ call.columns = None /\ DefaultsInTable # <<>>) =>
    LET Hit(i) == RowMatchesOn(i, <<DefaultsInTable[1]>>)
    IN  /\ result.status = "ok"
        /\ Range(result.table.index) = IndexWhere(Hit)

\* C8 amended: without a columns argument by_keywords searches all of title,
\* abstract, keywords, summary that the table has, joined in that order, so
\* text that occurs only in a later default column does make a row match.
C8_AllDefaultColumnsSearched ==
  (UsableCall /\ call.columns = None /\ DefaultsInTable # <<>>) =>
    LET Hit(i) == RowMatchesOn(i, DefaultsInTable)
    IN  /\ result.status = "ok"
        /\ Range(result.table.index) = IndexWhere(Hit)

\* C8 witness: a returned row matches in no single default column before the
\* last one the table has.
C8_Witness ==
  /\ UsableCall
  /\ call.columns = None
  /\ Len(DefaultsInTable) = 2
  /\ result.status = "ok"
  /\ \E i \in 1..NumRows(papers) :
       /\ papers.index[i] \in Range(result.table.index)
       /\ ~RowMatchesOn(i, <<DefaultsInTable[1]>>)
       /\ RowMatchesOn(i, <<DefaultsInTable[2]>>)

\* C9 as stated: without a columns argument, on a table with none of title,
\* abstract, keywords, summary, by_keywords fails with NoSearchableColumns.
C9_Original ==
  (Called("by_keywords") /\ call.columns = None /\ DefaultsInTable = <<>>) =>
    result.status = "NoSearchableColumns"

\* C9 amended: given at least one term and no columns argument, on a table
\* with none of title, abstract, keywords, summary, by_keywords fails with
\* NoSearchableColumns (with no term at all it returns the empty result).
C9_NoSearchableColumns ==
  (Called("by_keywords") /\ call.columns = None /\ DefaultsInTable = <<>>) =>
    IF call.terms # <<>>
    THEN result.status = "NoSearchableColumns"
    ELSE result = Ok(iloc_empty(papers))

\* C9 witness: the failure came before the terms and the mode were looked at:
\* the only term is blank and the mode is unsupported.
C9_Witness ==
  /\ Called("by_keywords")
  /\ call.columns = None
  /\ DefaultsInTable = <<>>
  /\ call.terms = <<T_blank>>
  /\ call.mode = M_regex
  /\ result.status = "NoSearchableColumns"

\* Position in the caller's table of the row with the index label.
PositionOf(label) == CHOOSE p \in 1..NumRows(papers) : papers.index[p] = label

\* The result holds rows of the caller's table, unchanged and in input order.
RowsInInputOrder ==
  \E kept \in SUBSET (1..NumRows(papers)) :
    LET Keep(p) == p \in kept
        positions == SelectSeq([p \in 1..NumRows(papers) |-> p], Keep)
    IN  result.table.rows = [k \in 1..Len(positions) |-> papers.rows[positions[k]]]

\* C10 as stated: the result of by_keywords has the input's columns in their
\* order and the matching rows in input order, and its index is 0..n-1
\* whatever the index labels of the input.
C10_Original ==
  Returned("by_keywords") =>
    /\ result.table.columns = papers.columns
    /\ RowsInInputOrder
    /\ result.table.index = [k \in 1..NumRows(result.table) |-> k - 1]

\* C10 amended: the result of by_keywords has the input's columns in their
\* order and the matching rows in input order, and every returned row keeps
\* the index label it has in the input: the index is not reset.
C10_ColumnsOrderIndexKept ==
  Returned("by_keywords") =>
    /\ result.table.columns = papers.columns
    /\ Len(result.table.index) = NumRows(result.table)
    /\ \A k \in 1..NumRows(result.table) :
         /\ result.table.index[k] \in Range(papers.index)
         /\ result.table.rows[k] = papers.rows[PositionOf(result.table.index[k])]
    /\ \A j, k \in 1..NumRows(result.table) :
         j < k => PositionOf(result.table.index[j]) < PositionOf(result.table.index[k])

\* C10 witness: both rows of a table whose index is not 0, 1 were returned.
C10_Witness ==
  /\ Matched
  /\ NumRows(papers) = 2
  /\ NumRows(result.table) = 2
  /\ papers.index # <<0, 1>>
  /\ Len(papers.columns) = 3

\* The mode strings by_keywords knows.
SupportedModes == {M_lemma, M_minmatch, M_substring}

\* The parsed rules of the call of label_by_rules, and the frame they run on.
ParsedRules == parse_rules(call.rules_yaml)
Frame == with_label_column(papers, call.label_column)

\* The parsed rules that cannot run: the mode is not supported, or no column
\* of the frame can be searched.
RuleUnsupported(rule) == rule.mode \notin SupportedModes
RuleUnsearchable(rule) == resolve_columns(Frame, rule.columns) = None
FailingRules ==
  {k \in 1..Len(ParsedRules) :
     RuleUnsupported(ParsedRules[k]) \/ RuleUnsearchable(ParsedRules[k])}
FirstFailingRule == ParsedRules[CHOOSE k \in FailingRules : \A j \in FailingRules : k <= j]

\* C11 as stated: by_keywords with a mode other than lemma, minmatch and
\* substring fails with InvalidArgument whatever the terms and the table, and
\* so does label_by_rules for a rule-set with a rule carrying such a mode.
C11_Original ==
  /\ (Called("by_keywords") /\ call.mode \notin SupportedModes)
       => result.status = "InvalidArgument"
  /\ (Called("label_by_rules") /\ \E k \in 1..Len(ParsedRules) : RuleUnsupported(ParsedRules[k]))
       => result.status = "InvalidArgument"

\* C11 amended: by_keywords with an unsupported mode fails with
\* InvalidArgument when it is given a term that is not blank and the table
\* has a column to search; with no term, or only blank terms, it returns the
\* empty result, and without a column to search it fails with
\* NoSearchableColumns.  label_by_rules fails at the first rule that cannot
\* run: with InvalidArgument when that rule has a column to search and an
\* unsupported mode, with NoSearchableColumns when it has no column to search.
C11_UnsupportedModeFails ==
  /\ (Called("by_keywords") /\ call.mode \notin SupportedModes) =>
       IF call.terms = <<>> THEN result = Ok(iloc_empty(papers))
       ELSE IF resolve_columns(papers, call.columns) = None
            THEN result.status = "NoSearchableColumns"
       ELSE IF \A k \in 1..Len(call.terms) : IsBlank(call.terms[k])
            THEN result = Ok(iloc_empty(papers))
       ELSE result.status = "InvalidArgument"
  /\ Called("label_by_rules") =>
       IF FailingRules = {} THEN result.status = "ok"
       ELSE IF RuleUnsearchable(FirstFailingRule)
            THEN result.status = "NoSearchableColumns"
       ELSE result.status = "InvalidArgument"

\* C11 witness: label_by_rules ran a first rule that matched a row, then called
\* by_keywords for a second rule with an unsupported mode and failed.
C11_Witness ==
  /\ Called("label_by_rules")
  /\ call.label_column = "labels"
  /\ Len(ParsedRules) = 2
  /\ ~RuleUnsupported(ParsedRules[1])
  /\ RuleUnsupported(ParsedRules[2])
  /\ \E i \in 1..NumRows(papers) : RuleMatchesRow(ParsedRules[1], i)
  /\ by_keywords(Frame, ParsedRules[2].terms, ParsedRules[2].mode,
                 ParsedRules[2].columns, ParsedRules[2].min_match).status
       = "InvalidArgument"
  /\ result.status = "InvalidArgument"

\* The entry is one of those the claim says are skipped: it is no mapping, it
\* has no label or a blank one, or none of its terms is other than blank.
IsSkippedEntry(entry) ==
  \/ ~IsMapping(entry)
  \/ "label" \notin DOMAIN entry
  \/ IsBlank(entry.label)
  \/ \A term \in Range(RawTerms(entry)) : IsBlank(term)

\* The entries of the rule-set of the call that are not skipped.
KeptEntries ==
  LET Kept(entry) == ~IsSkippedEntry(entry)
  IN  SelectSeq(call.rules_yaml, Kept)

\* C12: no entry that is skipped makes label_by_rules fail or puts a label
\* into a row: the call gives what the rule-set without those entries gives,
\* every label in the result is the label of an entry that is kept, and every
\* kept entry that matches a row has its label in that row.
C12_SkippedEntriesIgnored ==
  Called("label_by_rules") =>
    /\ Len(ParsedRules) = Len(KeptEntries)
    /\ result = label_by_rules(papers, KeptEntries, call.label_column)
    /\ (KeptEntries = <<>> /\ call.rules_yaml # <<>>) =>
         /\ result.status = "ok"
         /\ \A i \in 1..NumRows(result.table) : LabelsOf(i) = List(<<>>)
    /\ result.status = "ok" =>
         \A i \in 1..NumRows(result.table) :
           /\ \A label \in Range(LabelsOf(i).v) :
                \E k \in 1..Len(KeptEntries) : KeptEntries[k].label = label
           /\ \A k \in 1..Len(KeptEntries) :
                RuleMatchesRow(Get(parse_entry(KeptEntries[k])), i)
                  => KeptEntries[k].label \in Range(LabelsOf(i).v)

\* C12 witness: a skipped entry came first and the entry after it labelled a
\* row.
C12_Witness ==
  /\ Returned("label_by_rules")
  /\ call.label_column = "labels"
  /\ Len(call.rules_yaml) = 2
  /\ IsSkippedEntry(call.rules_yaml[1])
  /\ ~IsSkippedEntry(call.rules_yaml[2])
  /\ \E i \in 1..NumRows(result.table) :
       LabelsOf(i) = List(<<call.rules_yaml[2].label>>)

\* C13: no call of by_keywords, label_by_rules or a normaliser of the Table
\* Loader changes the table it is handed: in every step, successful or
\* failing, the caller's table keeps its columns, index, rows and cells.
C13_CallersTableUnchanged == [][papers' = papers]_vars

\* C13 witness: label_by_rules was called with a label column the caller's
\* table already holds and returned a table that differs in that column.
C13_Witness ==
  /\ Returned("label_by_rules")
  /\ call.label_column = "labels"
  /\ "labels" \in Range(papers.columns)
  /\ \E i \in 1..NumRows(papers) :
       /\ LabelsOf(i).v # <<>>
       /\ papers.rows[i].labels.kind = "str"

\* ------------------------------------------------------------- claims: dedupe
Round(k) == call.op = "dedupe_papers" /\ call.round = k

\* The paper_ids of the rows of a table.
IdsOf(table) == {table.rows[i].paper_id.v : i \in 1..NumRows(table)}

\* The duplicate group of row i of the caller's table under a threshold.
GroupOf(i, similarity) == closure(links(papers, similarity), {i})

\* a <= b on paper_ids.
IdAtMost(a, b) == a = b \/ str_less(a, b)

\* a <= b on thresholds.
SimilarityAtMost(a, b) == a[1] * b[2] <= b[1] * a[2]

\* C14: dedupe_papers applied to the table a call of dedupe_papers returned,
\* with the same valid threshold, removes no row: it returns that table.
C14_Idempotent ==
  (Round(2) /\ call.input = call.first_result.table
     /\ call.similarity = call.first_similarity) =>
    /\ result.status = "ok"
    /\ NumRows(result.table) = NumRows(call.input)
    /\ result.table = call.input

\* C14 witness: the first call merged rows and left two, and the second call
\* on those two rows removed none.
C14_Witness ==
  /\ Round(2)
  /\ call.input = call.first_result.table
  /\ call.similarity = call.first_similarity
  /\ NumRows(papers) = 3
  /\ NumRows(call.input) = 2
  /\ NumRows(result.table) = 2

\* C15: on the caller's rows in any other order dedupe_papers keeps the same
\* set of paper_ids, and the survivor of every duplicate group is the member
\* with the smallest paper_id, wherever it stands.
C15_OrderIndependent ==
  (Round(2) /\ call.input \in Shuffles(papers)
     /\ call.similarity = call.first_similarity) =>
    /\ result.status = "ok"
    /\ IdsOf(result.table) = IdsOf(call.first_result.table)
    /\ \A i \in 1..NumRows(papers) :
         LET group == GroupOf(i, call.similarity)
             smallest == CHOOSE m \in group :
                           \A j \in group :
                             IdAtMost(papers.rows[m].paper_id.v, papers.rows[j].paper_id.v)
         IN  IdsOf(result.table) \cap {papers.rows[j].paper_id.v : j \in group}
               = {papers.rows[smallest].paper_id.v}

\* C15 witness: a group of three whose smallest paper_id stands last in the
\* caller's table and not first in the shuffled one; both calls kept it alone.
C15_Witness ==
  /\ Round(2)
  /\ call.input \in Shuffles(papers) \ {papers}
  /\ call.similarity = call.first_similarity
  /\ NumRows(papers) = 3
  /\ GroupOf(1, call.similarity) = {1, 2, 3}
  /\ IdsOf(result.table) = {papers.rows[3].paper_id.v}
  /\ call.input.rows[1] # papers.rows[3]
  /\ IdsOf(call.first_result.table) = {papers.rows[3].paper_id.v}

\* C16: for valid thresholds s1 <= s2, dedupe_papers with s1 leaves no more
\* rows of the same table than dedupe_papers with s2.
C16_ThresholdMonotone ==
  (Round(2) /\ call.input = papers /\ result.status = "ok") =>
    /\ SimilarityAtMost(call.similarity, call.first_similarity)
         => NumRows(result.table) <= NumRows(call.first_result.table)
    /\ SimilarityAtMost(call.first_similarity, call.similarity)
         => NumRows(call.first_result.table) <= NumRows(result.table)

\* C16 witness: three thresholds apart: the lower one left one row of three
\* where the higher one left two.
C16_Witness ==
  /\ Round(2)
  /\ call.input = papers
  /\ result.status = "ok"
  /\ SimilarityAtMost(call.similarity, call.first_similarity)
  /\ NumRows(papers) = 3
  /\ NumRows(call.first_result.table) = 2
  /\ NumRows(result.table) = 1

C18_GroupsWithinYear ==
  (Round(1) /\ result.status = "ok") =>
    \A i \in 1..NumRows(papers) :
      LET group == GroupOf(i, call.similarity)
      IN  /\ \A j \in group : papers.rows[i].year = papers.rows[j].year
          /\ \E k \in 1..NumRows(result.table) :
               /\ result.table.rows[k].year = papers.rows[i].year
               /\ result.table.rows[k].paper_id.v
                    \in {papers.rows[j].paper_id.v : j \in group}

\* C18 witness: at the lowest threshold, a chain of links merged two rows of
\* one year, and a row with an equal title key and no year was kept.
C18_Witness ==
  /\ Round(1)
  /\ call.similarity = <<1, 4>>
  /\ NumRows(papers) = 3
  /\ NumRows(result.table) = 2
  /\ \E i, j \in 1..NumRows(papers) :
       /\ papers.rows[i].year = Null
       /\ papers.rows[j].year # Null
       /\ title_key(papers.rows[i].title) = title_key(papers.rows[j].title)
       /\ papers.rows[i].paper_id.v \in IdsOf(result.table)

\* ------------------------------------------------------------- claims: cleaner
\* The text is the token in title case.
IsTitleCaseOf(text, token) ==
  /\ Len(text) = Len(token)
  /\ \A k \in 1..Len(text) :
       /\ casefold(text[k]) = casefold(token[k])
       /\ (text[k] \in Range(UpperSeq)) = (k = 1)

D_tan_a == <<"T","a","n",","," ","A",".">>
D_gomez_c == <<"G","o","m","e","z",","," ","C",".">>

\* C19: normalize_authors renders a name of several tokens as the title-cased
\* last token and a comma, then the upper-cased first letter and a period for
\* each other token in order ("alice tan" gives "Tan, A." and
\* " Carla  Gomez " gives "Gomez, C."), and a name of one token as that token
\* in title case; the author_ids and the number of rows stay as they were, so
\* authors of one display name are not merged.
C19_DisplayNames ==
  call.op = "normalize_authors" =>
    /\ result.status = "ok"
    /\ NumRows(result.table) = NumRows(papers)
    /\ \A i \in 1..NumRows(papers) :
         LET tokens == split(papers.rows[i].name.v)
             parts == split(result.table.rows[i].name.v)
             shown == result.table.rows[i].name.v
         IN  /\ result.table.rows[i].author_id = papers.rows[i].author_id
             /\ shown = join(parts)
             /\ Len(parts) = Len(tokens)
             /\ Len(tokens) = 1 => IsTitleCaseOf(shown, tokens[1])
             /\ Len(tokens) > 1 =>
                  /\ parts[1] # <<>> /\ parts[1][Len(parts[1])] = ","
                  /\ IsTitleCaseOf(SubSeq(parts[1], 1, Len(parts[1]) - 1), tokens[Len(tokens)])
                  /\ \A k \in 1..(Len(tokens) - 1) :
                       /\ Len(parts[k + 1]) = 2
                       /\ parts[k + 1][2] = "."
                       /\ parts[k + 1][1] \in Range(UpperSeq)
                       /\ casefold(parts[k + 1][1]) = casefold(tokens[k][1])
             /\ papers.rows[i].name.v = N_alice => shown = D_tan_a
             /\ papers.rows[i].name.v = N_carla => shown = D_gomez_c

\* C19 witness: two authors whose names, "alice tan" and "Alice  TAN", are
\* shown alike are both in the result, each under its own author_id.
C19_Witness ==
  /\ call.op = "normalize_authors"
  /\ NumRows(papers) = 2
  /\ NumRows(result.table) = 2
  /\ papers.rows[1].name.v = N_alice
  /\ papers.rows[2].name.v = N_alice_tan
  /\ result.table.rows[1].name.v = D_tan_a
  /\ result.table.rows[2].name.v = D_tan_a
  /\ result.table.rows[1].author_id # result.table.rows[2].author_id

\* The supplied table lacks a column its kind requires.
LacksRequired(name, required) ==
  \E k \in 1..Len(required) : required[k] \notin Range(call.tables[name].columns)

\* The supplied table has the column and two rows with one value in it.
Repeats(name, column) ==
  /\ column \in Range(call.tables[name].columns)
  /\ Cardinality({call.tables[name].rows[i][column] : i \in 1..NumRows(call.tables[name])})
       < NumRows(call.tables[name])

\* The supplied table of that name is malformed.
Malformed(name) ==
  /\ name \in DOMAIN call.tables
  /\ \/ name = "papers" /\ (LacksRequired(name, <<"paper_id", "title">>) \/ Repeats(name, "paper_id"))
     \/ name = "authors" /\ (LacksRequired(name, <<"author_id", "name">>) \/ Repeats(name, "author_id"))
     \/ name = "authorships" /\ LacksRequired(name, <<"paper_id", "author_id">>)

TablesNamed == {result.report.rows[k].table : k \in 1..Len(result.report.rows)}

\* C20: validate_schema never raises; the report is ok exactly when it has no
\* problem row; a table that is not in the mapping has no problem row; and
\* every supplied papers, authors or authorships table that lacks a required
\* column or repeats its primary identifier has a problem row naming it.
C20_ReportOfSuppliedTables ==
  call.op = "validate_schema" =>
    /\ result.status = "ok"
    /\ result.report.ok = (result.report.rows = <<>>)
    /\ TablesNamed \subseteq DOMAIN call.tables
    /\ \A name \in {"papers", "authors", "authorships"} :
         Malformed(name) => name \in TablesNamed

\* C20 witness: the papers repeat a paper_id, the authors lack a column, the
\* authorships are not supplied: the report is not ok and names the two
\* supplied tables only.
C20_Witness ==
  /\ call.op = "validate_schema"
  /\ DOMAIN call.tables = {"papers", "authors"}
  /\ Repeats("papers", "paper_id")
  /\ ~LacksRequired("papers", <<"paper_id", "title">>)
  /\ LacksRequired("authors", <<"author_id", "name">>)
  /\ ~result.report.ok
  /\ TablesNamed = {"papers", "authors"}

\* ------------------------------------------------------------- claims: loader
\* The column of the caller's papers table that becomes paper_id, if any.
IdSources == {"id", "paperID", "paper", "paper_id"} \cap Range(papers.columns)

\* str(label) of the index labels of the corpus.
IndexText == <<<<"0">>, <<"1">>, <<"2">>>>

\* C21: the normalisation of a papers table fails with MissingColumn naming a
\* column the table lacks, or returns a table with paper_id (the column id,
\* paperID or paper renamed, or the index labels as text), title and venue
\* ("Unknown" in every row when the table had no venue); a papers table
\* that is returned never lacks paper_id or title.
C21_PapersNormalised ==
  call.op = "normalise_papers" =>
    \/ /\ result.status = "MissingColumn"
       /\ result.column = "title"
       /\ "title" \notin Range(papers.columns)
    \/ /\ result.status = "ok"
       /\ "title" \in Range(papers.columns)
       /\ {"paper_id", "title", "venue"} \subseteq Range(result.table.columns)
       /\ NumRows(result.table) = NumRows(papers)
       /\ \A i \in 1..NumRows(papers) :
            /\ result.table.rows[i].title = papers.rows[i].title
            /\ \A source \in IdSources :
                 result.table.rows[i].paper_id = papers.rows[i][source]
            /\ IdSources = {} =>
                 result.table.rows[i].paper_id = Str(IndexText[papers.index[i] + 1])
            /\ result.table.rows[i].venue =
                 IF "venue" \in Range(papers.columns) THEN papers.rows[i].venue
                 ELSE Str(<<"U","n","k","n","o","w","n">>)

\* C21 witness: a table with a title and neither an identifier nor a venue
\* came back with the index labels as paper_id and the venue "Unknown".
C21_Witness ==
  /\ call.op = "normalise_papers"
  /\ result.status = "ok"
  /\ IdSources = {}
  /\ "venue" \notin Range(papers.columns)
  /\ NumRows(papers) = 2
  /\ result.table.rows[2].paper_id = Str(IndexText[papers.index[2] + 1])
  /\ result.table.rows[2].venue = Str(<<"U","n","k","n","o","w","n">>)

\* ------------------------------------------------------------- claims: stemmer
InflectionalSuffixes == {<<"i","n","g">>, <<"e","d">>, <<"e","s">>, <<"s">>}

\* The token is the stem followed by the suffix.
StrippedOf(token, stem, suffix) == token = stem \o suffix

T_gas == <<"g","a","s">>

\* C22: lemmatise returns the token without one of the suffixes ing, ed, es,
\* s, and then the stem has at least three characters, or it returns the
\* token unchanged, and then no suffix can be removed leaving three
\* characters; "gas" stays "gas".
C22_LemmatiseKeepsShortStems ==
  call.op = "lemmatise" =>
    /\ \/ /\ result.value # call.token
          /\ Len(result.value) >= 3
          /\ \E suffix \in InflectionalSuffixes :
               StrippedOf(call.token, result.value, suffix)
       \/ /\ result.value = call.token
          /\ \A suffix \in InflectionalSuffixes :
               \A n \in 3..Len(call.token) :
                 ~StrippedOf(call.token, SubSeq(call.token, 1, n), suffix)
    /\ call.token = T_gas => result.value = T_gas

\* C22 witness: "gases" lost its "es" and became "gas".
C22_Witness ==
  /\ call.op = "lemmatise"
  /\ call.token = T_gas \o <<"e","s">>
  /\ result.value = T_gas

\* ------------------------------------------------------------- claims: bibtex
\* The fields a well-formed entry stands for: lower-cased names, the value
\* written last for a name.
FieldsOf(entry) ==
  LET names == {lower(entry.fields[k].name) : k \in 1..Len(entry.fields)}
      last(name) == CHOOSE k \in 1..Len(entry.fields) :
                      /\ lower(entry.fields[k].name) = name
                      /\ \A j \in (k + 1)..Len(entry.fields) : lower(entry.fields[j].name) # name
  IN  [name \in names |-> entry.fields[last(name)].value]

\* C23: parse_bibtex_entries on the text of n >= 1 well-formed entries
\* returns n records in the order of the text, each with the type, the key
\* and the lower-cased field names with the brace-stripped values of its
\* entry.
C23_EveryEntryParsed ==
  call.op = "parse_bibtex_entries" =>
    /\ result.status = "ok"
    /\ Len(result.entries) = Len(call.given)
    /\ \A k \in 1..Len(call.given) :
         /\ result.entries[k].entry_type = call.given[k].entry_type
         /\ result.entries[k].citation_key = call.given[k].citation_key
         /\ LET parsed == result.entries[k].fields
                 expected == FieldsOf(call.given[k])
            IN  /\ {parsed[j].name : j \in 1..Len(parsed)} = DOMAIN expected
                /\ \A j \in 1..Len(parsed) : parsed[j].value = expected[parsed[j].name]

\* ------------------------------------------------------------- claims: report
\* The calls made so far.
Log == call.log

\* The captures made after the last reset.
CapturesSinceReset ==
  LET resets == {k \in 1..Len(Log) : Log[k].op = "reset"}
      from == IF resets = {} THEN 1 ELSE (CHOOSE k \in resets : \A j \in resets : j <= k) + 1
  IN  {k \in from..Len(Log) : Log[k].op = "capture"}

\* The latest capture of the key after the last reset.
LatestCapture(key) ==
  CHOOSE k \in CapturesSinceReset :
    /\ Log[k].key = key
    /\ \A j \in CapturesSinceReset : Log[j].key = key => j <= k

\* What a snapshot of the registry has to be.
ExpectedSnapshot ==
  [key \in {Log[k].key : k \in CapturesSinceReset} |-> Log[LatestCapture(key)].value]

\* C24: after any sequence of capture and reset calls the registry maps each
\* key captured since the last reset to the value of its latest capture and
\* holds no other key; a snapshot is that mapping; reset empties the
\* registry; a write to a returned snapshot leaves the registry as it was.
C24_RegistryIsLatestCaptures ==
  /\ dict_copy(registry).data = ExpectedSnapshot
  /\ call.op = "snapshot" => result.snapshot.data = ExpectedSnapshot
  /\ call.op = "reset" => registry = EmptyDict
  /\ call.op = "change_snapshot" => registry = call.taken

\* C24 witness: after a capture the holder of a snapshot wrote another value
\* for the key into it, and the registry still holds the captured value.
C24_Witness ==
  /\ call.op = "change_snapshot"
  /\ Len(Log) = 3
  /\ Log[1].op = "capture" /\ Log[1].key = "trend" /\ Log[1].value = Str(V_rising)
  /\ Log[2].op = "snapshot"
  /\ "trend" \in DOMAIN result.snapshot.data
  /\ result.snapshot.data["trend"] = Str(V_flat)
  /\ registry["trend"] = Str(V_rising)

\* The value render has to use for a key: the context argument's, else the
\* template's, else the registry's.
Precedence(key) ==
  IF call.context # None /\ key \in DOMAIN Get(call.context) THEN Get(call.context)[key]
  ELSE IF key \in DOMAIN template THEN template[key]
  ELSE registry[key]

KeysStaged ==
  DOMAIN registry \cup DOMAIN template
  \cup (IF call.context = None THEN {} ELSE DOMAIN Get(call.context))

\* C30: render uses for every key the value of its context argument, else
\* the value given with with_context, else the value captured in the
\* registry; it changes neither the registry nor the template's context, and
\* a second render with the same argument gives the same HTML.
C30_RenderPrecedence ==
  call.op = "render" =>
    /\ DOMAIN result.context = KeysStaged
    /\ \A key \in KeysStaged : result.context[key] = Precedence(key)
    /\ \A k \in 1..Len(SectionKeys) :
         (\E j \in 2..Len(result.html) :
            /\ result.html[j].title = SectionTitles[k]
            /\ result.html[j].body = Precedence(SectionKeys[k]))
         <=> (SectionKeys[k] \in KeysStaged /\ Precedence(SectionKeys[k]) # Null)
    /\ registry = call.registry_before
    /\ template = call.template_before
    /\ call.again => result.html = call.first_html

\* C30 witness: the registry, the template and the argument each gave a
\* value for trend, the page shows the argument's, and the second render
\* gave the same page.
C30_Witness ==
  /\ call.op = "render"
  /\ call.again
  /\ "trend" \in DOMAIN registry /\ registry["trend"] = Null
  /\ "trend" \in DOMAIN template /\ template["trend"] = Str(V_rising)
  /\ call.context = Some(dict_put(EmptyDict, "trend", Str(V_flat)))
  /\ Len(result.html) = 2
  /\ result.html[2].body = Str(V_flat)
  /\ result.html = call.first_html

\* ------------------------------------------------------------- claims: graphs
\* The paper_ids with an authorship row of each of the two authors.
PapersShared(a, b) ==
  LET rows == call.authorships.rows
      Of(author) == {rows[i].paper_id : i \in {j \in 1..Len(rows) :
                       rows[j].author_id = Str(author) /\ rows[j].paper_id # Null}}
  IN  Of(a) \cap Of(b)

AuthorsNamed ==
  {call.authorships.rows[i].author_id.v :
     i \in {j \in 1..Len(call.authorships.rows) :
              /\ call.authorships.rows[j].author_id # Null
              /\ call.authorships.rows[j].paper_id # Null}}

\* C25: the co-authorship graph has an edge {a, b} exactly for two authors
\* with a paper in common, and its weight is the number of distinct
\* paper_ids with authorship rows of both; a table with a row repeated gives
\* the same nodes, edges and weights.
C25_WeightsCountPapers ==
  (call.op = "coauthors" /\ result.status = "ok") =>
    /\ result.graph.nodes = AuthorsNamed
    /\ \A a, b \in AuthorsNamed :
         IF a # b /\ PapersShared(a, b) # {}
         THEN /\ {a, b} \in DOMAIN result.graph.weight
              /\ result.graph.weight[{a, b}] = Cardinality(PapersShared(a, b))
         ELSE {a, b} \notin DOMAIN result.graph.weight
    /\ call.round = 2 =>
         /\ result.graph.nodes = call.first_graph.nodes
         /\ result.graph.weight = call.first_graph.weight

\* C25 witness: two authors share two papers, a row of one of them is in the
\* table twice, and the edge has weight 2.
C25_Witness ==
  /\ call.op = "coauthors"
  /\ call.round = 2
  /\ result.status = "ok"
  /\ {A_1, A_2} \in DOMAIN result.graph.weight
  /\ result.graph.weight[{A_1, A_2}] = 2
  /\ Len(call.authorships.rows) = 5
  /\ call.authorships.rows[5] = call.authorships.rows[1]

\* ------------------------------------------------------------- claims: package
ModuleOf(name) == [module |-> name]

C27_ReturnedRowsHoldATerm ==
  Returned("by_keywords") =>
    IF Matched
    THEN \A i \in 1..NumRows(papers) :
           papers.index[i] \in Range(result.table.index) => TermsFound(i) # {}
    ELSE result.table.rows = <<>>

\* C27 witness: in minmatch mode with a negative min_match the row that
\* holds a term was returned and the row that holds none was not.
C27_Witness ==
  /\ Matched
  /\ call.mode = M_minmatch
  /\ call.min_match = Some(0 - 1)
  /\ NumRows(papers) = 2
  /\ NumRows(result.table) = 1
  /\ \E i, j \in 1..NumRows(papers) :
       /\ papers.index[i] \in Range(result.table.index)
       /\ TermsFound(i) # {}
       /\ papers.index[j] \notin Range(result.table.index)
       /\ TermsFound(j) = {}

\* C28: label_by_rules with the same rule entries in another order, the
\* label column being no column a rule searches, fails when the first order
\* fails and otherwise gives every row the same label sequence; the result
\* has the rows of the input in the order of the input.
C28_RuleOrderIrrelevant ==
  (call.op = "label_by_rules" /\ call.round = 2
     /\ \A k \in 1..Len(call.rules_yaml) : LabelColumnNotSearched(call.rules_yaml[k])) =>
    /\ (result.status = "ok") = (call.first_result.status = "ok")
    /\ result.status = "ok" =>
         /\ result.table = call.first_result.table
         /\ result.table.index = papers.index
         /\ \A i \in 1..NumRows(papers) :
              \A column \in Range(papers.columns) \ {call.label_column} :
                result.table.rows[i][column] = papers.rows[i][column]

\* C28 witness: rules for AI and GAN in two orders left a row with both
\* labels, AI first, each time.
C28_Witness ==
  /\ call.op = "label_by_rules"
  /\ call.round = 2
  /\ \A k \in 1..Len(call.rules_yaml) : LabelColumnNotSearched(call.rules_yaml[k])
  /\ result.status = "ok"
  /\ Get(parse_entry(call.rules_yaml[1])).label = L_GAN
  /\ Get(parse_entry(call.rules_yaml[2])).label = L_AI
  /\ \E i \in 1..NumRows(result.table) :
       /\ LabelsOf(i).v = <<L_AI, L_GAN>>
       /\ call.first_result.table.rows[i][call.label_column].v = <<L_AI, L_GAN>>

\* ------------------------------------------------------------- claims: rule entries
\* The items of a value given under a key: a string is one term.
ItemsOf(given) ==
  IF given = None THEN <<>>
  ELSE IF Get(given).kind = "str" THEN <<Get(given).v>> ELSE Get(given).v

\* The terms of the entry of the call in the order terms, any, all, the
\* blank ones left out.
TermsInKeyOrder ==
  LET NotBlank(term) == \E k \in 1..Len(term) : term[k] # " "
  IN  SelectSeq(ItemsOf(call.terms) \o ItemsOf(call.any) \o ItemsOf(call.all), NotBlank)

\* The keys under which the entry of the call gives terms.
KeysGiven ==
  {key \in {"terms", "any", "all"} :
     (key = "terms" /\ call.terms # None) \/ (key = "any" /\ call.any # None)
       \/ (key = "all" /\ call.all # None)}

\* The value the entry gives, when it gives terms under one key only.
OnlyValue == IF call.terms # None THEN call.terms ELSE IF call.any # None THEN call.any ELSE call.all

====
